---- MODULE Spec2Model ----
(***************************************************************************)
(* A model of main_mpv.py (IPTV player on MPV + PySide6): the M3U playlist *)
(* parser and category index of MPVPlayer.load_playlist, the category and  *)
(* channel list widgets it refreshes, and the icon fetch bookkeeping       *)
(* (channel_icons, pending_icon_downloads, icon_download_queue and the     *)
(* ImageDownloadThread workers).                                           *)
(*                                                                         *)
(* Text is modelled character by character: a Python str is a sequence of  *)
(* one-character strings.  The module is ASCII, so a Cyrillic letter is    *)
(* written as the name of its code point ("U0412" is the letter VE).       *)
(***************************************************************************)
EXTENDS Integers, Sequences, FiniteSets, TLC

VARIABLES
    fs,                      \* the files on disk: path -> sequence of lines, or NoFile
    channels,                \* self.channels
    categories,              \* self.categories
    category_combo,          \* self.category_combo (QComboBox): items and current index
    search_box,              \* self.search_box.text()
    channel_list,            \* self.channel_list (QListWidget): the items shown
    channel_icons,           \* self.channel_icons: url -> icon
    pending_icon_downloads,  \* self.pending_icon_downloads: url -> thread
    icon_download_queue,     \* self.icon_download_queue
    _active_threads,         \* self._active_threads: every ImageDownloadThread started
    timers,                  \* outstanding QTimer.singleShot(100, _process_download_queue)
    _is_closing,             \* self._is_closing
    parse_in,                \* the line handed to parse_m3u_line
    parse_out,               \* <<what parse_m3u_line returned for it>>, <<>> before the call
    json_file,               \* the file playlists.json
    playlists_data,          \* self.playlists_data
    last_playlist,           \* self.last_playlist
    playlist_combo,          \* self.playlist_combo (QComboBox): items and current index
    playlist_files,          \* self.playlist_files
    btn_update_playlist,     \* self.btn_update_playlist.isEnabled()
    initializing_ui,         \* self.initializing_ui
    startup,                 \* the singleShot timers of _schedule_initial_load still due
    download_threads,        \* every PlaylistDownloadThread started
    _opener,                 \* urllib.request._opener: the headers of the installed opener
    workers,                 \* the worker threads between install_opener and urlopen
    pending_playlist_name,   \* self.pending_playlist_name, NoAttr while not set
    playing,                 \* what self.player.play was last given
    fault                    \* the exception a handler let escape, "" if none

\* the playlist registry and its widgets
reg == <<json_file, playlists_data, last_playlist, playlist_combo,
         playlist_files, btn_update_playlist, initializing_ui, startup,
         download_threads>>

\* the process-wide opener, the name of the playlist being added, the player
\* and the unhandled exceptions
ext == <<_opener, workers, pending_playlist_name, playing, fault>>

vars == <<fs, channels, categories, category_combo, search_box, channel_list,
          channel_icons, pending_icon_downloads, icon_download_queue,
          _active_threads, timers, _is_closing, parse_in, parse_out, ext, reg>>

-----------------------------------------------------------------------------
(* Python values and str operations                                        *)

\* Python's None, as a value no str equals (every str is a sequence of
\* one-character names, none of them "None").
None == <<"None">>

\* an attribute that was never set, or was deleted with delattr
NoAttr == [t |-> "NoAttr"]

\* bool(x) for x a str or None
Truthy(x) == x # None /\ x # <<>>

\* x or y
PyOr(x, y) == IF Truthy(x) THEN x ELSE y

Min2(a, b) == IF a < b THEN a ELSE b
Max2(a, b) == IF a > b THEN a ELSE b

\* s[a:b], with Python's treatment of negative and out-of-range indices
PySlice(s, a, b) ==
    LET n  == Len(s)
        lo == IF a < 0 THEN Max2(0, n + a) ELSE Min2(a, n)
        hi == IF b < 0 THEN Max2(0, n + b) ELSE Min2(b, n)
    IN  IF hi <= lo THEN <<>> ELSE SubSeq(s, lo + 1, hi)

\* s.find(sub, start): the lowest 0-based index at or after start, or -1
PyFind(s, sub, start) ==
    LET hits == {i \in start .. (Len(s) - Len(sub)) :
                    SubSeq(s, i + 1, i + Len(sub)) = sub}
    IN  IF hits = {} THEN -1
        ELSE CHOOSE i \in hits : \A j \in hits : i <= j

\* sub in s
PyIn(sub, s) == PyFind(s, sub, 0) # -1

\* s.startswith(p)
PyStartsWith(s, p) == Len(s) >= Len(p) /\ SubSeq(s, 1, Len(p)) = p

IsSpace(c) == c \in {" ", "\t", "\n", "\r"}

RECURSIVE PyLStrip(_)
PyLStrip(s) == IF s # <<>> /\ IsSpace(Head(s)) THEN PyLStrip(Tail(s)) ELSE s

RECURSIVE PyRStrip(_)
PyRStrip(s) ==
    IF s # <<>> /\ IsSpace(s[Len(s)]) THEN PyRStrip(SubSeq(s, 1, Len(s) - 1)) ELSE s

\* s.strip()
PyStrip(s) == PyRStrip(PyLStrip(s))

\* str.lower() on the letters the model uses
LowerOf ==
    "A" :> "a" @@ "B" :> "b" @@ "C" :> "c" @@ "O" :> "o" @@ "N" :> "n" @@
    "E" :> "e" @@ "X" :> "x" @@ "T" :> "t" @@ "I" :> "i" @@ "F" :> "f" @@
    "U0412" :> "U0432" @@ "U0411" :> "U0431" @@ "U042F" :> "U044F"

PyLower(s) == [i \in 1 .. Len(s) |-> IF s[i] \in DOMAIN LowerOf THEN LowerOf[s[i]] ELSE s[i]]

\* ord(c): Python compares str values code point by code point
CodePoint ==
    " " :> 32 @@ "\"" :> 34 @@ "#" :> 35 @@ "," :> 44 @@ "-" :> 45 @@
    "1" :> 49 @@ "2" :> 50 @@ "3" :> 51 @@ "4" :> 52 @@ "5" :> 53 @@ "6" :> 54 @@
    ":" :> 58 @@ "=" :> 61 @@
    "A" :> 65 @@ "B" :> 66 @@ "C" :> 67 @@ "E" :> 69 @@ "F" :> 70 @@ "I" :> 73 @@
    "N" :> 78 @@ "O" :> 79 @@ "T" :> 84 @@ "X" :> 88 @@
    "a" :> 97 @@ "b" :> 98 @@ "c" :> 99 @@ "e" :> 101 @@ "g" :> 103 @@ "h" :> 104 @@
    "i" :> 105 @@ "l" :> 108 @@ "n" :> 110 @@ "o" :> 111 @@ "p" :> 112 @@
    "r" :> 114 @@ "s" :> 115 @@ "t" :> 116 @@ "u" :> 117 @@ "v" :> 118 @@
    "x" :> 120 @@
    "U0411" :> 1041 @@ "U0412" :> 1042 @@ "U042F" :> 1071 @@ "U0430" :> 1072 @@
    "U0431" :> 1073 @@ "U0432" :> 1074 @@ "U0433" :> 1075 @@ "U0435" :> 1077 @@
    "U0437" :> 1079 @@ "U0438" :> 1080 @@ "U043A" :> 1082 @@ "U043B" :> 1083 @@
    "U043D" :> 1085 @@ "U043E" :> 1086 @@ "U0440" :> 1088 @@ "U0441" :> 1089 @@
    "U0442" :> 1090 @@ "U044B" :> 1099 @@ "U044F" :> 1103

\* a < b for two str values
RECURSIVE PyStrLess(_, _)
PyStrLess(a, b) ==
    IF b = <<>> THEN FALSE
    ELSE IF a = <<>> THEN TRUE
    ELSE IF Head(a) = Head(b) THEN PyStrLess(Tail(a), Tail(b))
    ELSE CodePoint[Head(a)] < CodePoint[Head(b)]

\* sorted(S) for a set of distinct str values
RECURSIVE PySorted(_)
PySorted(S) ==
    IF S = {} THEN <<>>
    ELSE LET m == CHOOSE x \in S : \A y \in S \ {x} : PyStrLess(x, y)
         IN  <<m>> \o PySorted(S \ {m})

-----------------------------------------------------------------------------
(* Constants of the program                                                *)

MAX_CONCURRENT_DOWNLOADS == 5

\* "Все каналы"
CATEGORY_ALL == <<"U0412", "U0441", "U0435", " ",
                  "U043A", "U0430", "U043D", "U0430", "U043B", "U044B">>

\* "Без категории"
CATEGORY_NONE == <<"U0411", "U0435", "U0437", " ", "U043A", "U0430", "U0442",
                   "U0435", "U0433", "U043E", "U0440", "U0438", "U0438">>

S_EXTINF == <<"#", "E", "X", "T", "I", "N", "F">>
S_GROUP_TITLE == <<"g", "r", "o", "u", "p", "-", "t", "i", "t", "l", "e", "=", "\"">>
S_TVG_LOGO == <<"t", "v", "g", "-", "l", "o", "g", "o", "=", "\"">>

-----------------------------------------------------------------------------
(* parse_m3u_line                                                          *)

\* the value of attribute attr (its text up to and including the opening
\* quote) in info_part: info_part[start:end] with end = find('"', start),
\* which is -1 when no quote follows
AttrValue(info_part, attr) ==
    LET start == PyFind(info_part, attr, 0) + Len(attr)
        end   == PyFind(info_part, <<"\"">>, start)
    IN  PySlice(info_part, start, end)

\* line.split(',', 1): the text before and after the first comma
SplitComma(line) ==
    LET k == PyFind(line, <<",">>, 0)
    IN  <<PySlice(line, 0, k), PySlice(line, k + 1, Len(line))>>

parse_m3u_line(line) ==
    IF PyIn(<<",">>, line)
    THEN LET parts     == SplitComma(line)
             info_part == parts[1]
         IN  [name  |-> PyStrip(parts[2]),
              group |-> IF PyIn(S_GROUP_TITLE, info_part)
                        THEN AttrValue(info_part, S_GROUP_TITLE) ELSE None,
              logo  |-> IF PyIn(S_TVG_LOGO, info_part)
                        THEN AttrValue(info_part, S_TVG_LOGO) ELSE None]
    ELSE [name |-> None, group |-> None, logo |-> None]

-----------------------------------------------------------------------------
(* MPVPlayer.load_playlist: the parse loop                                 *)

\* Channel(name, url, group, logo)
Channel(name, url, group, logo) ==
    [name |-> name, url |-> url, group |-> group, logo |-> logo]

\* self.categories[key].append(channel), creating the list when key is new
CatAppend(cats, key, channel) ==
    IF key \in DOMAIN cats
    THEN [cats EXCEPT ![key] = Append(@, channel)]
    ELSE cats @@ (key :> <<channel>>)

NoInfo == [name |-> None, group |-> None, logo |-> None]

\* in place of a line of the file: "for line in f" raises here (the bytes
\* are not UTF-8, the device fails) and safe_call ends load_playlist
ReadError == <<"ReadError">>

\* the loop with a pending info line forgotten at a comment line
RECURSIVE ParseLoopReset(_, _, _)
ParseLoopReset(lines, i, st) ==
    IF i > Len(lines) THEN st
    ELSE IF lines[i] = ReadError THEN [st EXCEPT !.failed = TRUE]
    ELSE LET line == PyStrip(lines[i]) IN
         IF line = <<>> THEN ParseLoopReset(lines, i + 1, st)
         ELSE IF PyStartsWith(line, S_EXTINF)
         THEN ParseLoopReset(lines, i + 1, [st EXCEPT !.cur = parse_m3u_line(line)])
         ELSE IF ~PyStartsWith(line, <<"#">>) /\ Truthy(st.cur.name)
         THEN LET channel == Channel(st.cur.name, line,
                                     PyOr(st.cur.group, CATEGORY_NONE), st.cur.logo)
                  all     == CatAppend(st.categories, CATEGORY_ALL, channel)
              IN  ParseLoopReset(lines, i + 1,
                     [cur        |-> NoInfo,
                      failed     |-> FALSE,
                      channels   |-> Append(st.channels, channel),
                      categories |-> IF Truthy(st.cur.group)
                                     THEN CatAppend(all, st.cur.group, channel)
                                     ELSE all])
         ELSE ParseLoopReset(lines, i + 1, [st EXCEPT !.cur = NoInfo])

\* the body of "for line in f", over lines[i..]; st holds the loop's
\* variables: cur (current_name, current_group, current_logo), channels
\* and categories, and failed: the loop was left by an exception
RECURSIVE ParseLoop(_, _, _)
ParseLoop(lines, i, st) ==
    IF i > Len(lines) THEN st
    ELSE IF lines[i] = ReadError THEN [st EXCEPT !.failed = TRUE]
    ELSE LET line == PyStrip(lines[i]) IN
         IF line = <<>> THEN ParseLoop(lines, i + 1, st)
         ELSE IF PyStartsWith(line, S_EXTINF)
         THEN ParseLoop(lines, i + 1, [st EXCEPT !.cur = parse_m3u_line(line)])
         ELSE IF ~PyStartsWith(line, <<"#">>) /\ Truthy(st.cur.name)
         THEN LET channel == Channel(st.cur.name, line,
                                     PyOr(st.cur.group, CATEGORY_NONE), st.cur.logo)
                  all     == CatAppend(st.categories, CATEGORY_ALL, channel)
              IN  ParseLoop(lines, i + 1,
                     [cur        |-> NoInfo,
                      failed     |-> FALSE,
                      channels   |-> Append(st.channels, channel),
                      categories |-> IF Truthy(st.cur.group)
                                     THEN CatAppend(all, st.cur.group, channel)
                                     ELSE all])
         ELSE ParseLoop(lines, i + 1, st)

\* self.channels = []; self.categories = {CATEGORY_ALL: []}; then the loop
ParsePlaylist(lines) ==
    ParseLoop(lines, 1, [cur        |-> NoInfo,
                         failed     |-> FALSE,
                         channels   |-> <<>>,
                         categories |-> (CATEGORY_ALL :> <<>>)])

-----------------------------------------------------------------------------
(* Widgets and the icon bookkeeping                                        *)

\* the icon _create_fallback_icon() draws, and QIcon(pixmap) for the
\* image downloaded from url
FallbackIcon == <<"fallback">>
ImageIcon(url) == <<"image", url>>

\* QComboBox.currentText(): "" when there is no current item
ComboText(combo) == IF combo.idx = 0 THEN <<>> ELSE combo.items[combo.idx]

\* QComboBox.findText(text): the 1-based index of the first match, or 0
ComboFind(combo, text) ==
    LET hits == {i \in 1 .. Len(combo.items) : combo.items[i] = text}
    IN  IF hits = {} THEN 0 ELSE CHOOSE i \in hits : \A j \in hits : i <= j

\* QListWidget.clear() deletes the C++ items: every QListWidgetItem wrapper
\* still referenced (from a queue entry or from a thread's slot) becomes
\* invalid, written item = 0
DropItems(refs) == [i \in 1 .. Len(refs) |-> [refs[i] EXCEPT !.item = 0]]

\* list_item.setIcon(icon): RuntimeError on a deleted item, which every
\* caller catches
SetIcon(list, item, icon) ==
    IF item \in 1 .. Len(list) THEN [list EXCEPT ![item].icon = icon] ELSE list

\* one more QTimer.singleShot; counted up to MaxTimers (a callback beyond
\* one outstanding finds nothing new to start)
MaxTimers == 1
AddTimer(n) == Min2(n + 1, MaxTimers)

\* get_channel_icon without the look into channel_icons
get_channel_icon_uncached(w, icons, pend, logo_url, channel_name, list_item) ==
    LET w1 == [w EXCEPT !.list = SetIcon(w.list, list_item, FallbackIcon)] IN
    IF ~Truthy(logo_url) THEN w1
    ELSE IF logo_url \in DOMAIN pend THEN w1
    ELSE [w1 EXCEPT !.queue  = Append(w1.queue, [url  |-> logo_url,
                                                  name |-> channel_name,
                                                  item |-> list_item]),
                    !.timers = AddTimer(w1.timers)]

\* get_channel_icon(logo_url, channel_name, list_item) on w = the widgets
\* and queue it writes; icons and pend are read only
get_channel_icon(w, icons, pend, logo_url, channel_name, list_item) ==
    LET w1 == [w EXCEPT !.list = SetIcon(w.list, list_item, FallbackIcon)] IN
    IF ~Truthy(logo_url) THEN w1
    ELSE IF logo_url \in DOMAIN icons
    THEN [w1 EXCEPT !.list = SetIcon(w1.list, list_item, icons[logo_url])]
    ELSE IF logo_url \in DOMAIN pend THEN w1
    ELSE [w1 EXCEPT !.queue  = Append(w1.queue, [url  |-> logo_url,
                                                  name |-> channel_name,
                                                  item |-> list_item]),
                    !.timers = AddTimer(w1.timers)]

\* the search without .lower() on the channel name
RECURSIVE SearchFilterCase(_, _)
SearchFilterCase(chs, search_text) ==
    IF chs = <<>> THEN <<>>
    ELSE IF PyIn(search_text, Head(chs).name)
    THEN <<Head(chs)>> \o SearchFilterCase(Tail(chs), search_text)
    ELSE SearchFilterCase(Tail(chs), search_text)

\* [ch for ch in channels if search_text in ch.name.lower()]
RECURSIVE SearchFilter(_, _)
SearchFilter(chs, search_text) ==
    IF chs = <<>> THEN <<>>
    ELSE IF PyIn(search_text, PyLower(Head(chs).name))
    THEN <<Head(chs)>> \o SearchFilter(Tail(chs), search_text)
    ELSE SearchFilter(Tail(chs), search_text)

\* "for channel in channels": addItem and get_channel_icon for chs[k..]
RECURSIVE AddItems(_, _, _, _, _)
AddItems(w, icons, pend, chs, k) ==
    IF k > Len(chs) THEN w
    ELSE LET w1 == [w EXCEPT !.list = Append(w.list, [text |-> chs[k].name,
                                                      icon |-> <<>>])]
         IN  AddItems(get_channel_icon(w1, icons, pend, chs[k].logo, chs[k].name,
                                       Len(w1.list)),
                      icons, pend, chs, k + 1)

\* filter_channels() on w = [combo, list, queue, threads, timers]; env holds
\* what it only reads: categories, search, icons, pend
filter_channels(w, env) ==
    LET w0 == [w EXCEPT !.list = <<>>,
                        !.queue = DropItems(w.queue),
                        !.threads = DropItems(w.threads)]
        category == ComboText(w0.combo)
    IN  IF ~Truthy(category) \/ category \notin DOMAIN env.categories THEN w0
        ELSE LET all == env.categories[category]
                 search_text == PyLower(env.search)
                 chs == IF Truthy(search_text) THEN SearchFilter(all, search_text)
                        ELSE all
             IN  AddItems(w0, env.icons, env.pend, chs, 1)

\* a change of the combo box; currentTextChanged is emitted, and
\* filter_channels runs, when the current text is a different one
ComboChange(w, env, combo) ==
    IF ComboText(combo) # ComboText(w.combo)
    THEN filter_channels([w EXCEPT !.combo = combo], env)
    ELSE [w EXCEPT !.combo = combo]

\* update_categories(): clear(), addItems(sorted(keys)), setCurrentText
update_categories(w, env) ==
    LET keys    == PySorted(DOMAIN env.categories)
        w1      == ComboChange(w, env, [items |-> <<>>, idx |-> 0])
        w2      == ComboChange(w1, env, [items |-> keys,
                                         idx |-> IF keys = <<>> THEN 0 ELSE 1])
        i       == ComboFind(w2.combo, CATEGORY_ALL)
    IN  IF CATEGORY_ALL \in DOMAIN env.categories /\ i > 0
        THEN ComboChange(w2, env, [w2.combo EXCEPT !.idx = i])
        ELSE w2

-----------------------------------------------------------------------------
(* The icon fetch bookkeeping                                              *)

EmptyDict == <<>>

\* del d[key]
DictDel(d, key) == [k \in (DOMAIN d) \ {key} |-> d[k]]

\* ImageDownloadThread(url, channel_name), its finished signal connected to
\* a slot that holds the list item; phase is where run() is: "running",
\* "emitted" (finished was emitted and waits in the event loop) or "done"
\* (nothing more comes from the thread: its slot never runs again, and the
\* item it holds is written 0)
NewThread(url, item) ==
    [url |-> url, item |-> item, running |-> TRUE, phase |-> "running",
     result |-> "none"]

\* the while loop of _process_download_queue with <= for <: it starts a
\* thread when MAX_CONCURRENT_DOWNLOADS URLs are pending already
RECURSIVE DownloadLoopLe(_, _)
DownloadLoopLe(s, icons) ==
    IF Cardinality(DOMAIN s.pend) <= MAX_CONCURRENT_DOWNLOADS /\ s.queue # <<>>
    THEN LET item_data == Head(s.queue)
             url       == item_data.url
             s1        == [s EXCEPT !.queue = Tail(s.queue)]
         IN  IF url \in DOMAIN s1.pend \/ url \in DOMAIN icons
             THEN DownloadLoopLe(s1, icons)
             ELSE DownloadLoopLe(
                     [s1 EXCEPT !.pend = s1.pend @@ (url :> Len(s1.threads) + 1),
                                !.threads = Append(s1.threads,
                                                   NewThread(url, item_data.item))],
                     icons)
    ELSE s

\* the while loop of _process_download_queue, on s = [pend, queue, threads]
RECURSIVE DownloadLoop(_, _)
DownloadLoop(s, icons) ==
    IF Cardinality(DOMAIN s.pend) < MAX_CONCURRENT_DOWNLOADS /\ s.queue # <<>>
    THEN LET item_data == Head(s.queue)
             url       == item_data.url
             s1        == [s EXCEPT !.queue = Tail(s.queue)]
         IN  IF url \in DOMAIN s1.pend \/ url \in DOMAIN icons
             THEN DownloadLoop(s1, icons)
             ELSE DownloadLoop(
                     [s1 EXCEPT !.pend = s1.pend @@ (url :> Len(s1.threads) + 1),
                                !.threads = Append(s1.threads,
                                                   NewThread(url, item_data.item))],
                     icons)
    ELSE s

\* _process_download_queue()
process_download_queue(s, icons, closing) ==
    IF closing THEN s ELSE DownloadLoop(s, icons)

\* _cleanup_channels_and_threads(): stop() every pending thread, then clear
\* pending_icon_downloads, channel_icons and icon_download_queue
StopPending(threads, pend) ==
    [i \in 1 .. Len(threads) |->
        IF \E u \in DOMAIN pend : pend[u] = i
        THEN [threads[i] EXCEPT !.running = FALSE] ELSE threads[i]]

\* _on_icon_loaded without its test of _is_closing
on_icon_loaded_open(s, closing, url, pixmap, list_item) ==
    LET pend1 == IF url \in DOMAIN s.pend THEN DictDel(s.pend, url) ELSE s.pend
        icon  == IF pixmap = "ok" THEN ImageIcon(url) ELSE FallbackIcon
        icons1 == IF url \in DOMAIN s.icons
                  THEN [s.icons EXCEPT ![url] = icon]
                  ELSE s.icons @@ (url :> icon)
        q == process_download_queue(
                [pend |-> pend1, queue |-> s.queue, threads |-> s.threads],
                icons1, closing)
    IN  [pend |-> q.pend, queue |-> q.queue, threads |-> q.threads,
         icons |-> icons1, list |-> SetIcon(s.list, list_item, icon)]

\* _on_icon_loaded with setIcon before the write of channel_icons: the
\* RuntimeError of a deleted item skips the write
on_icon_loaded_set_first(s, closing, url, pixmap, list_item) ==
    IF closing THEN s
    ELSE LET pend1 == IF url \in DOMAIN s.pend THEN DictDel(s.pend, url) ELSE s.pend
             icon  == IF pixmap = "ok" THEN ImageIcon(url) ELSE FallbackIcon
             icons1 == IF list_item \notin 1 .. Len(s.list) THEN s.icons
                       ELSE IF url \in DOMAIN s.icons
                       THEN [s.icons EXCEPT ![url] = icon]
                       ELSE s.icons @@ (url :> icon)
             q == process_download_queue(
                     [pend |-> pend1, queue |-> s.queue, threads |-> s.threads],
                     icons1, closing)
         IN  [pend |-> q.pend, queue |-> q.queue, threads |-> q.threads,
              icons |-> icons1, list |-> SetIcon(s.list, list_item, icon)]

\* _on_icon_loaded(url, pixmap, list_item) on
\* s = [pend, queue, threads, icons, list]
on_icon_loaded(s, closing, url, pixmap, list_item) ==
    IF closing THEN s
    ELSE LET pend1 == IF url \in DOMAIN s.pend THEN DictDel(s.pend, url) ELSE s.pend
             icon  == IF pixmap = "ok" THEN ImageIcon(url) ELSE FallbackIcon
             icons1 == IF url \in DOMAIN s.icons
                       THEN [s.icons EXCEPT ![url] = icon]
                       ELSE s.icons @@ (url :> icon)
             q == process_download_queue(
                     [pend |-> pend1, queue |-> s.queue, threads |-> s.threads],
                     icons1, closing)
         IN  [pend |-> q.pend, queue |-> q.queue, threads |-> q.threads,
              icons |-> icons1, list |-> SetIcon(s.list, list_item, icon)]

-----------------------------------------------------------------------------
(* Playlist text                                                           *)

Quoted(attr, value) ==
    IF value = None THEN <<>> ELSE <<" ">> \o attr \o value \o <<"\"">>

\* #EXTINF:-1 tvg-logo="<logo>" group-title="<group>",<name>
InfoLine(group, logo, name) ==
    S_EXTINF \o <<":", "-", "1">> \o Quoted(S_TVG_LOGO, logo)
             \o Quoted(S_GROUP_TITLE, group) \o <<",">> \o name

S_EXTM3U == <<"#", "E", "X", "T", "M", "3", "U">>

\* a playlist file: the header, then an info line and a URL line per entry
RECURSIVE EntryLines(_)
EntryLines(entries) ==
    IF entries = <<>> THEN <<>>
    ELSE <<InfoLine(Head(entries).group, Head(entries).logo, Head(entries).name),
           Head(entries).url>> \o EntryLines(Tail(entries))

PlaylistFile(entries) == <<S_EXTM3U>> \o EntryLines(entries)

Entry(name, url, group, logo) ==
    [name |-> name, url |-> url, group |-> group, logo |-> logo]

GroupValues == {None, <<"A">>, <<"U042F">>, <<"A", ",", " ", "B">>, CATEGORY_ALL}
LogoValues == {None, <<"u", "1">>}
NameValues == {<<"C", "h", "a", "n", "n", "e", "l", " ", "O", "n", "e">>,
               <<"A", "1">>, <<" ", "B", "2", " ">>}

U1 == <<"u", "1">>
U2 == <<"u", "2">>

\* fs[path] when there is no file at path
NoFile == <<<<"NoFile">>>>

Paths == {"p1", "p2"}

\* two channels with the same logo, and a file with one other channel
SmallFiles ==
    "p1" :> PlaylistFile(<<Entry(<<"A", "1">>, <<"s", "1">>, None, U1),
                           Entry(<<"A", "2">>, <<"s", "2">>, None, U1)>>)
    @@ "p2" :> PlaylistFile(<<Entry(<<"A", "3">>, <<"s", "3">>, None, U2)>>)

\* six channels with six logos: one more than MAX_CONCURRENT_DOWNLOADS
CapFiles ==
    "p1" :> PlaylistFile(
               [k \in 1 .. 6 |->
                   Entry(<<"A", <<"1", "2", "3", "4", "5", "6">>[k]>>,
                         <<"s", <<"1", "2", "3", "4", "5", "6">>[k]>>,
                         None,
                         <<"u", <<"1", "2", "3", "4", "5", "6">>[k]>>)])
    @@ "p2" :> NoFile

\* playlists of up to two well-formed entries, over every group and logo
LoadEntries(name, url) ==
    {Entry(name, url, g, l) : g \in GroupValues, l \in LogoValues}

LoadTexts ==
    {PlaylistFile(<<>>)}
    \cup {PlaylistFile(<<e1>>) : e1 \in LoadEntries(<<"A", "1">>, <<"s", "1">>)}
    \cup {PlaylistFile(<<e1, e2>>) :
             e1 \in LoadEntries(<<"A", "1">>, <<"s", "1">>),
             e2 \in LoadEntries(<<"B", "2">>, <<"s", "2">>)}

\* files that are no playlist: empty, a line of other text, and files the
\* read of which fails at once or after the first entry
BadTexts ==
    {<<>>, <<<<"h", "e", "l", "l", "o">>>>, <<ReadError>>,
     PlaylistFile(<<Entry(<<"C", "3">>, <<"s", "3">>, None, None)>>)
        \o <<ReadError>>}

\* lines between an info line and its URL line: none, blank lines, comment
\* lines and other directives
Fillers ==
    {<<>>, <<<<>>>>, <<<<" ", " ">>>>, <<<<"#", "c">>>>,
     <<<<"#", "E", "X", "T", "G", "R", "P", ":", "x">>>>,
     <<<<>>, <<"#", "c">>, <<>>>>}

\* a first info line, and what may follow it before the URL line: nothing,
\* another info line, or an info line without a name
FirstInfos == {InfoLine(<<"A">>, U1, <<"A", "1">>), InfoLine(None, None, <<"A", "1">>)}
NextInfos ==
    {<<>>,
     <<InfoLine(<<"U042F">>, None, <<"B", "2">>)>>,
     <<InfoLine(None, U1, <<"B", "2">>)>>,
     <<S_EXTINF \o <<":", "-", "1">>>>}

GapUrl == <<"s", "1">>

GapText(first, gap1, next, gap2) ==
    <<S_EXTM3U, first>> \o gap1 \o next \o gap2 \o <<GapUrl>>

\* a URL line with no info line before it, after a comment line, and after
\* the URL line of the only info line
BareTexts ==
    {<<S_EXTM3U, GapUrl>>,
     <<S_EXTM3U, <<"#", "c">>, GapUrl>>,
     <<S_EXTM3U, InfoLine(None, None, <<"A", "1">>), GapUrl, <<"s", "2">>>>}

GapTexts ==
    {GapText(first, gap1, next, gap2) :
        first \in FirstInfos, gap1 \in Fillers, next \in NextInfos,
        gap2 \in Fillers}
    \cup BareTexts

\* playlists in which two channels have one name, in one group or in two
DupGroups == {None, <<"A">>, <<"U042F">>}
DupTexts ==
    {PlaylistFile(<<Entry(<<"A", "1">>, <<"s", "1">>, g1, None),
                    Entry(<<"A", "1">>, <<"s", "2">>, g2, None),
                    Entry(<<"B", "2">>, <<"s", "3">>, None, None)>>) :
        g1 \in DupGroups, g2 \in DupGroups}

\* ParsePlaylist of every playlist text of the model, computed once
AllTexts == {SmallFiles[p] : p \in Paths} \cup {CapFiles[p] : p \in Paths}
            \cup LoadTexts \cup BadTexts \cup GapTexts \cup DupTexts

Parsed == [text \in AllTexts \ {NoFile} |-> ParsePlaylist(text)]

\* the info lines parse_m3u_line is tried on
InfoLines ==
    {InfoLine(g, l, n) : g \in GroupValues \cup {<<>>},
                         l \in LogoValues \cup {<<>>},
                         n \in NameValues \cup {<<>>}}
    \cup {S_EXTINF \o <<":", "-", "1">>}

-----------------------------------------------------------------------------
(* playlists.json: Python values, JSON documents, json.load and json.dump  *)

\* Python values of the registry: None, str, float, bool, list, and dict as
\* the sequence of its items in insertion order
PyNone == [t |-> "NoneType"]
PyStr(x) == [t |-> "str", v |-> x]
PyNum(n) == [t |-> "float", v |-> n]
PyBool(b) == [t |-> "bool", v |-> b]
PyList(items) == [t |-> "list", v |-> items]
PyDict(items) == [t |-> "dict", v |-> items]

\* the position of key in d, 0 when absent
PyDictIdx(d, key) ==
    LET hits == {i \in 1 .. Len(d.v) : d.v[i].k = key}
    IN  IF hits = {} THEN 0 ELSE CHOOSE i \in hits : TRUE

\* key in d
PyDictHas(d, key) == PyDictIdx(d, key) # 0

\* d.get(key, default)
PyDictGet(d, key, default) ==
    IF PyDictHas(d, key) THEN d.v[PyDictIdx(d, key)].val ELSE default

\* d[key] = val: a key already there keeps its place
PyDictSet(d, key, val) ==
    IF PyDictHas(d, key)
    THEN PyDict([d.v EXCEPT ![PyDictIdx(d, key)].val = val])
    ELSE PyDict(Append(d.v, [k |-> key, val |-> val]))

\* del d[key]
PyDictDel(d, key) ==
    PyDict(SelectSeq(d.v, LAMBDA item : item.k # key))

\* list(d.keys())
PyDictKeys(d) == [i \in 1 .. Len(d.v) |-> d.v[i].k]

\* JSON documents: null, string, number, true/false, array, and object as
\* the sequence of its members in the order of the text
JNull == [t |-> "null"]
JStr(x) == [t |-> "string", v |-> x]
JNum(n) == [t |-> "number", v |-> n]
JBool(b) == [t |-> "boolean", v |-> b]
JArr(items) == [t |-> "array", v |-> items]
JObj(members) == [t |-> "object", v |-> members]

\* playlists.json when it does not exist, and when its text is no JSON
\* (truncated, not UTF-8, ...)
JMissing == [t |-> "missing"]
JCorrupt == [t |-> "corrupt"]

\* json.load: the Python value of a document; of two members with one key
\* the later value stays
RECURSIVE json_load(_)
json_load(j) ==
    CASE j.t = "null"    -> PyNone
      [] j.t = "string"  -> PyStr(j.v)
      [] j.t = "number"  -> PyNum(j.v)
      [] j.t = "boolean" -> PyBool(j.v)
      [] j.t = "array"   -> PyList([i \in 1 .. Len(j.v) |-> json_load(j.v[i])])
      [] j.t = "object"  ->
            LET RECURSIVE Fill(_, _)
                Fill(i, d) ==
                    IF i > Len(j.v) THEN d
                    ELSE Fill(i + 1, PyDictSet(d, j.v[i].k, json_load(j.v[i].val)))
            IN  Fill(1, PyDict(<<>>))

\* json.dump: the document written for a Python value
RECURSIVE json_dump(_)
json_dump(x) ==
    CASE x.t = "NoneType" -> JNull
      [] x.t = "str"      -> JStr(x.v)
      [] x.t = "float"    -> JNum(x.v)
      [] x.t = "bool"     -> JBool(x.v)
      [] x.t = "list"     -> JArr([i \in 1 .. Len(x.v) |-> json_dump(x.v[i])])
      [] x.t = "dict"     ->
            JObj([i \in 1 .. Len(x.v) |->
                     [k |-> x.v[i].k, val |-> json_dump(x.v[i].val)]])

\* load_playlists_data() taking whatever the document is for the registry
load_playlists_data_any(file) ==
    LET empty == [playlists_data |-> PyDict(<<>>), last_playlist |-> PyNone] IN
    IF file = JMissing THEN empty
    ELSE IF file = JCorrupt THEN empty
    ELSE LET data == json_load(file) IN
         IF data.t # "dict" THEN [playlists_data |-> data, last_playlist |-> PyNone]
         ELSE [playlists_data |-> PyDictGet(data, "playlists", PyDict(<<>>)),
               last_playlist  |-> PyDictGet(data, "last_playlist", PyNone)]

\* load_playlists_data(): <<playlists_data, last_playlist>> read from file
load_playlists_data(file) ==
    LET empty == [playlists_data |-> PyDict(<<>>), last_playlist |-> PyNone] IN
    IF file = JMissing THEN empty
    ELSE IF file = JCorrupt THEN empty
    ELSE LET data == json_load(file) IN
         IF data.t # "dict" THEN empty
         ELSE [playlists_data |-> PyDictGet(data, "playlists", PyDict(<<>>)),
               last_playlist  |-> PyDictGet(data, "last_playlist", PyNone)]

\* save_playlists_data() that leaves out last_playlist
save_playlists_only(pd, last) ==
    json_dump(PyDict(<<[k |-> "playlists", val |-> pd]>>))

\* save_playlists_data(): the file written
save_playlists_data(pd, last) ==
    json_dump(PyDict(<<[k |-> "playlists", val |-> pd],
                       [k |-> "last_playlist", val |-> last]>>))

-----------------------------------------------------------------------------
(* The handlers                                                            *)

\* what the user types into the search box
SearchTexts == {<<>>, <<"b">>}

\* the widgets and queue after filter_channels and update_categories
Widgets == [combo |-> category_combo, list |-> channel_list,
            queue |-> icon_download_queue, threads |-> _active_threads,
            timers |-> timers]

SetWidgets(w) ==
    /\ category_combo' = w.combo
    /\ channel_list' = w.list
    /\ icon_download_queue' = w.queue
    /\ _active_threads' = w.threads
    /\ timers' = w.timers

\* os.path.exists(path)
Exists(fsys, path) == path \in DOMAIN fsys /\ fsys[path] # NoFile

\* what load_playlist writes: pl = [channels, categories, icons, pend, w]
Player == [channels |-> channels, categories |-> categories,
           icons |-> channel_icons, pend |-> pending_icon_downloads,
           w |-> Widgets]

SetPlayer(pl) ==
    /\ channels' = pl.channels
    /\ categories' = pl.categories
    /\ channel_icons' = pl.icons
    /\ pending_icon_downloads' = pl.pend
    /\ SetWidgets(pl.w)

\* load_playlist from the open() on: the lines of the file are text
LoadText(pl, text, search) ==
    LET parsed == Parsed[text]
        env == [categories |-> parsed.categories, search |-> search,
                icons |-> EmptyDict, pend |-> EmptyDict]
        w0  == [pl.w EXCEPT
                   !.queue = <<>>,
                   !.threads = StopPending(pl.w.threads, pl.pend)]
    IN  [channels   |-> parsed.channels,
         categories |-> parsed.categories,
         icons      |-> EmptyDict,
         pend       |-> EmptyDict,
         w          |-> IF parsed.failed THEN w0
                        ELSE filter_channels(update_categories(w0, env), env)]

\* load_playlist without its os.path.exists test: open() fails
load_playlist_open(pl, fsys, search, filepath) ==
    LoadText(pl, IF Exists(fsys, filepath) THEN fsys[filepath] ELSE <<ReadError>>,
             search)

\* load_playlist(filepath) on pl, with the files fsys and the search text
load_playlist(pl, fsys, search, filepath) ==
    IF ~Exists(fsys, filepath) THEN pl
    ELSE LoadText(pl, fsys[filepath], search)

\* load_playlist(filepath)
LoadPlaylist(filepath) ==
    /\ ~_is_closing
    /\ SetPlayer(load_playlist(Player, fs, search_box, filepath))
    /\ UNCHANGED <<fs, search_box, _is_closing, parse_in, parse_out, ext, reg>>

Env == [categories |-> categories, search |-> search_box,
        icons |-> channel_icons, pend |-> pending_icon_downloads]

\* the user picks entry i of the category combo box
CategoryActivated(i) ==
    /\ ~_is_closing
    /\ i \in 1 .. Len(category_combo.items)
    /\ i # category_combo.idx
    /\ SetWidgets(ComboChange(Widgets, Env, [category_combo EXCEPT !.idx = i]))
    /\ UNCHANGED <<fs, channels, categories, search_box, channel_icons,
                   pending_icon_downloads, _is_closing, parse_in, parse_out, ext, reg>>

\* the user edits the search box: textChanged runs filter_channels
SearchEdited(text) ==
    /\ ~_is_closing
    /\ text # search_box
    /\ search_box' = text
    /\ SetWidgets(filter_channels(Widgets, [Env EXCEPT !.search = text]))
    /\ UNCHANGED <<fs, channels, categories, channel_icons,
                   pending_icon_downloads, _is_closing, parse_in, parse_out, ext, reg>>

\* a QTimer.singleShot(100, self._process_download_queue) fires
TimerFire ==
    /\ timers > 0
    /\ LET q == process_download_queue(
                   [pend |-> pending_icon_downloads, queue |-> icon_download_queue,
                    threads |-> _active_threads], channel_icons, _is_closing)
       IN  /\ timers' = timers - 1
           /\ pending_icon_downloads' = q.pend
           /\ icon_download_queue' = q.queue
           /\ _active_threads' = q.threads
    /\ UNCHANGED <<fs, channels, categories, category_combo, search_box,
                   channel_list, channel_icons, _is_closing, parse_in, parse_out, ext, reg>>

\* ImageDownloadThread.run() of thread t ends.  "error": urlopen or read
\* raised (transport error, timeout) and safe_call swallowed it; otherwise
\* the bytes arrived and decode to an image ("ok") or to a null pixmap
\* ("null"); nothing is emitted once stop() has cleared _running
ThreadRun(t, outcome) ==
    /\ t \in 1 .. Len(_active_threads)
    /\ _active_threads[t].phase = "running"
    /\ _active_threads' = [_active_threads EXCEPT ![t] =
          IF outcome = "error"
          THEN [@ EXCEPT !.phase = "done", !.result = "error", !.item = 0]
          ELSE IF ~@.running
          THEN [@ EXCEPT !.phase = "done", !.result = "stopped", !.item = 0]
          ELSE [@ EXCEPT !.phase = "emitted", !.result = outcome]]
    /\ UNCHANGED <<fs, channels, categories, category_combo, search_box,
                   channel_list, channel_icons, pending_icon_downloads,
                   icon_download_queue, timers, _is_closing, parse_in, parse_out, ext, reg>>

\* the event loop delivers thread t's finished signal to _on_icon_loaded
IconLoaded(t) ==
    /\ t \in 1 .. Len(_active_threads)
    /\ _active_threads[t].phase = "emitted"
    /\ LET th == _active_threads[t]
           r  == on_icon_loaded(
                    [pend |-> pending_icon_downloads, queue |-> icon_download_queue,
                     threads |-> [_active_threads EXCEPT ![t].phase = "done",
                                                         ![t].item = 0],
                     icons |-> channel_icons, list |-> channel_list],
                    _is_closing, th.url, th.result, th.item)
       IN  /\ pending_icon_downloads' = r.pend
           /\ icon_download_queue' = r.queue
           /\ _active_threads' = r.threads
           /\ channel_icons' = r.icons
           /\ channel_list' = r.list
    /\ UNCHANGED <<fs, channels, categories, category_combo, search_box,
                   timers, _is_closing, parse_in, parse_out, ext, reg>>

\* closeEvent(event)
CloseEvent ==
    /\ ~_is_closing
    /\ _is_closing' = TRUE
    /\ _active_threads' = StopPending(_active_threads, pending_icon_downloads)
    /\ pending_icon_downloads' = EmptyDict
    /\ channel_icons' = EmptyDict
    /\ icon_download_queue' = <<>>
    /\ UNCHANGED <<fs, channels, categories, category_combo, search_box,
                   channel_list, timers, parse_in, parse_out, ext, reg>>

\* parse_m3u_line(parse_in)
ParseLine ==
    /\ parse_out = <<>>
    /\ parse_out' = <<parse_m3u_line(parse_in)>>
    /\ UNCHANGED <<fs, channels, categories, category_combo, search_box,
                   channel_list, channel_icons, pending_icon_downloads,
                   icon_download_queue, _active_threads, timers, _is_closing,
                   parse_in, ext, reg>>

-----------------------------------------------------------------------------
(* The playlist registry and its controls                                  *)

\* the player's variables, which the registry file operations leave alone
player == <<fs, channels, categories, category_combo, search_box, channel_list,
            channel_icons, pending_icon_downloads, icon_download_queue,
            _active_threads, timers, _is_closing, parse_in, parse_out>>

\* playlist_combo.currentText(): '' when nothing is selected
PlaylistText(combo) == IF combo.idx = 0 THEN "" ELSE combo.items[combo.idx]

\* data.get('name', filename) of the entry at filename
DisplayName(pd, filename) ==
    PyDictGet(PyDictGet(pd, filename, PyDict(<<>>)), "name", PyStr(filename))

\* _find_playlist_file_by_display_name(display_name): the first key in
\* insertion order whose entry shows display_name, else None
_find_playlist_file_by_display_name(pd, display_name) ==
    LET hits == {i \in 1 .. Len(pd.v) :
                    DisplayName(pd, pd.v[i].k) = PyStr(display_name)}
    IN  IF display_name = "" \/ hits = {} THEN PyNone
        ELSE PyStr(pd.v[CHOOSE i \in hits : \A j \in hits : i <= j].k)

\* the test of _update_playlist_controls(playlist_file): setEnabled(TRUE) iff
\* playlist_file is a key of the registry whose entry has 'url'
HasUrl(pd, playlist_file) ==
    /\ playlist_file # PyNone
    /\ PyDictHas(pd, playlist_file.v)
    /\ PyDictHas(PyDictGet(pd, playlist_file.v, PyDict(<<>>)), "url")

\* the registry and what its handlers write:
\* r = [pd, last, json, combo, files, btn, init, pl], with pl as in Player
Registry == [pd |-> playlists_data, last |-> last_playlist, json |-> json_file,
             combo |-> playlist_combo, files |-> playlist_files,
             btn |-> btn_update_playlist, init |-> initializing_ui,
             pl |-> Player]

SetRegistry(r) ==
    /\ playlists_data' = r.pd
    /\ last_playlist' = r.last
    /\ json_file' = r.json
    /\ playlist_combo' = r.combo
    /\ playlist_files' = r.files
    /\ btn_update_playlist' = r.btn
    /\ initializing_ui' = r.init
    /\ SetPlayer(r.pl)

\* F(x), with x evaluated once
Let(x, F(_)) == CHOOSE out \in {F(v) : v \in {x}} : TRUE

\* on_playlist_changed(playlist_name), with the files fsys and the search text
on_playlist_changed(r0, fsys, search, playlist_name) ==
    Let(r0, LAMBDA r :
        IF r.init \/ playlist_name = "" THEN r
        ELSE LET playlist_file == _find_playlist_file_by_display_name(r.pd, playlist_name)
                 r1 == IF playlist_file # PyNone
                       THEN [r EXCEPT !.last = playlist_file,
                                      !.json = save_playlists_data(r.pd, playlist_file)]
                       ELSE r
                 r2 == [r1 EXCEPT !.btn = HasUrl(r.pd, playlist_file)]
             IN  IF playlist_file # PyNone /\ Exists(fsys, playlist_file.v)
                 THEN [r2 EXCEPT !.pl = load_playlist(r.pl, fsys, search, playlist_file.v)]
                 ELSE r2)

\* the playlist combo box becomes combo; currentTextChanged is emitted, and
\* on_playlist_changed runs, when the current text is another one
PlaylistComboChange(r0, fsys, search, combo) ==
    Let(r0, LAMBDA r :
        IF PlaylistText(combo) # PlaylistText(r.combo)
        THEN on_playlist_changed([r EXCEPT !.combo = combo], fsys, search,
                                 PlaylistText(combo))
        ELSE [r EXCEPT !.combo = combo])

\* the loop of update_playlist_list from item i of the registry on: addItem
\* and append for every entry whose file exists; the first addItem makes its
\* item the current one
RECURSIVE AddPlaylists(_, _, _, _)
AddPlaylists(r0, fsys, search, i) ==
    Let(r0, LAMBDA r :
        IF i > Len(r.pd.v) THEN r
        ELSE LET filename == r.pd.v[i].k IN
             IF ~Exists(fsys, filename) THEN AddPlaylists(r, fsys, search, i + 1)
             ELSE Let(PlaylistComboChange(
                         r, fsys, search,
                         [items |-> Append(r.combo.items,
                                           DisplayName(r.pd, filename).v),
                          idx |-> IF r.combo.idx = 0 THEN 1 ELSE r.combo.idx]),
                      LAMBDA r1 :
                         AddPlaylists([r1 EXCEPT !.files = Append(r1.files, filename)],
                                      fsys, search, i + 1)))

\* QComboBox.setCurrentText(text) of a combo box that is not editable: the
\* first item with this text becomes current, and nothing happens without one
SetCurrentText(r0, fsys, search, text) ==
    Let(r0, LAMBDA r :
        LET i == ComboFind(r.combo, text)
        IN  IF i > 0
            THEN PlaylistComboChange(r, fsys, search, [r.combo EXCEPT !.idx = i])
            ELSE r)

\* update_playlist_list()
update_playlist_list(r0, fsys, search) ==
    Let(AddPlaylists(
           [PlaylistComboChange(r0, fsys, search, [items |-> <<>>, idx |-> 0])
               EXCEPT !.files = <<>>],
           fsys, search, 1),
        LAMBDA r1 :
           IF Len(r1.combo.items) = 0 THEN r1
           ELSE IF r1.last # PyNone /\ PyDictHas(r1.pd, r1.last.v)
           THEN SetCurrentText(r1, fsys, search, DisplayName(r1.pd, r1.last.v).v)
           ELSE PlaylistComboChange(r1, fsys, search, [r1.combo EXCEPT !.idx = 1]))

\* _find_playlist_display_name(playlist_file); os.path.basename of a path
\* of the working directory is the path
_find_playlist_display_name(pd, playlist_file) ==
    IF PyDictHas(pd, playlist_file) THEN DisplayName(pd, playlist_file)
    ELSE PyStr(playlist_file)

\* time.time() of every write of the model
Now == PyNum(3)

\* PlaylistDownloadThread(url, file_path), its finished signal connected to
\* on_playlist_updated; phase is "running", "emitted" or "done"
NewDownload(url, file_path) ==
    [url |-> url, file_path |-> file_path, phase |-> "running",
     success |-> FALSE, error |-> ""]

\* update_playlist_from_url(playlist_name) on the sequence of download threads
update_playlist_from_url(threads, pd, playlist_name) ==
    IF ~PyDictHas(pd, playlist_name) THEN threads
    ELSE LET playlist_data == PyDictGet(pd, playlist_name, PyDict(<<>>)) IN
         IF ~PyDictHas(playlist_data, "url") THEN threads
         ELSE Append(threads,
                     NewDownload(PyDictGet(playlist_data, "url", PyNone).v,
                                 playlist_name))

\* the loop of check_and_update_playlists_on_startup from item i on, for
\* the entries needs_update the user agreed to update
RECURSIVE UpdateAll(_, _, _, _)
UpdateAll(threads, pd, needs_update, i) ==
    IF i > Len(pd.v) THEN threads
    ELSE UpdateAll(IF pd.v[i].k \in needs_update
                   THEN update_playlist_from_url(threads, pd, pd.v[i].k)
                   ELSE threads,
                   pd, needs_update, i + 1)

\* the keys of the entries with 'url'
UrlKeys(pd) == {pd.v[i].k : i \in {j \in 1 .. Len(pd.v) : PyDictHas(pd.v[j].val, "url")}}

\* validate_m3u(content), content being the lines of the text
validate_m3u(content) ==
    /\ content # <<>>
    /\ \E i \in 1 .. Len(content) :
          /\ content[i] # ReadError
          /\ PyIn(S_EXTM3U, content[i]) \/ PyIn(S_EXTINF, content[i])

\* on_playlist_updated(success, error, playlist_name): the lookup of a
\* deleted entry raises KeyError after the timestamp was left alone
on_playlist_updated(r0, fsys, search, success, playlist_name) ==
    Let(r0, LAMBDA r :
        IF ~success \/ ~PyDictHas(r.pd, playlist_name) THEN r
        ELSE LET data == PyDictSet(PyDictGet(r.pd, playlist_name, PyDict(<<>>)),
                                   "last_updated", Now)
                 pd1  == PyDictSet(r.pd, playlist_name, data)
                 r1   == [r EXCEPT !.pd = pd1,
                                   !.json = save_playlists_data(pd1, r.last)]
             IN  IF PyStr(PlaylistText(r.combo)) = DisplayName(pd1, playlist_name)
                 THEN [r1 EXCEPT !.pl = load_playlist(r.pl, fsys, search, playlist_name)]
                 ELSE r1)

\* on_playlist_updated is no safe_call: after a success for a key that is
\* no longer in playlists_data, self.playlists_data[playlist_name] raises
\* KeyError and the exception leaves the slot
on_playlist_updated_raises(pd, success, playlist_name) ==
    success /\ ~PyDictHas(pd, playlist_name)

\* what on_delete_playlist_clicked does when the combo box is left empty
ClearChannels(r0, search) ==
    Let(r0, LAMBDA r :
        LET env == [categories |-> (CATEGORY_ALL :> <<>>), search |-> search,
                    icons |-> r.pl.icons, pend |-> r.pl.pend]
        IN  IF Len(r.combo.items) # 0 THEN r
            ELSE [r EXCEPT
                    !.pl.channels = <<>>,
                    !.pl.categories = (CATEGORY_ALL :> <<>>),
                    !.pl.w = filter_channels(update_categories(r.pl.w, env), env)])

\* on_delete_playlist_clicked(), the user answering Yes
on_delete_playlist_clicked(r0, fsys, search) ==
    Let(r0, LAMBDA r :
        LET playlist_file ==
                _find_playlist_file_by_display_name(r.pd, PlaylistText(r.combo))
            pd1 == PyDictDel(r.pd, playlist_file.v)
        IN  IF playlist_file = PyNone THEN r
            ELSE ClearChannels(
                    update_playlist_list(
                       [r EXCEPT !.pd = pd1,
                                 !.json = save_playlists_data(pd1, r.last),
                                 !.files = SelectSeq(r.files,
                                              LAMBDA f : f # playlist_file.v)],
                       fsys, search),
                    search))

\* _load_initial_playlist() up to check_and_update_playlists_on_startup
_load_initial_playlist(r0, fsys, search) ==
    Let(update_playlist_list(r0, fsys, search), LAMBDA r1 :
        IF Len(r1.combo.items) = 0 THEN r1
        ELSE LET target_file == IF r1.last # PyNone /\ Exists(fsys, r1.last.v)
                                THEN r1.last.v ELSE r1.files[1]
                 display_name == _find_playlist_display_name(r1.pd, target_file)
                 index == ComboFind(r1.combo, display_name.v)
             IN  [r1 EXCEPT !.pl = load_playlist(r1.pl, fsys, search, target_file),
                            !.combo.idx = IF index > 0 THEN index ELSE @,
                            !.init = FALSE])

\* the timer of UI_INIT_DELAY_MS fires: _load_initial_playlist(), the user
\* agreeing to update the entries needs_update
LoadInitialPlaylist(needs_update) ==
    /\ startup = "new"
    /\ startup' = "loaded"
    /\ needs_update \subseteq UrlKeys(playlists_data)
    /\ SetRegistry(_load_initial_playlist(Registry, fs, search_box))
    /\ download_threads' = UpdateAll(download_threads, playlists_data, needs_update, 1)
    /\ UNCHANGED <<fs, search_box, _is_closing, parse_in, parse_out, ext>>

\* the timer of POST_INIT_DELAY_MS fires: _complete_ui_init()
CompleteUiInit ==
    /\ startup = "loaded"
    /\ startup' = "ready"
    /\ initializing_ui' = FALSE
    /\ UNCHANGED <<player, ext, json_file, playlists_data, last_playlist,
                   playlist_combo, playlist_files, btn_update_playlist,
                   download_threads>>

\* the user picks item i of the playlist combo box
PlaylistActivated(i) ==
    /\ ~_is_closing
    /\ i \in 1 .. Len(playlist_combo.items)
    /\ i # playlist_combo.idx
    /\ SetRegistry(PlaylistComboChange(Registry, fs, search_box,
                                       [playlist_combo EXCEPT !.idx = i]))
    /\ UNCHANGED <<fs, search_box, _is_closing, parse_in, parse_out, ext, startup,
                   download_threads>>

\* the user clicks the delete button and answers Yes
DeleteClicked ==
    /\ ~_is_closing
    /\ _find_playlist_file_by_display_name(
          playlists_data, PlaylistText(playlist_combo)) # PyNone
    /\ SetRegistry(on_delete_playlist_clicked(Registry, fs, search_box))
    /\ UNCHANGED <<fs, search_box, _is_closing, parse_in, parse_out, ext, startup,
                   download_threads>>

\* the user clicks the refresh button, which takes no click when disabled,
\* and answers Yes: on_update_playlist_clicked()
UpdateClicked ==
    /\ ~_is_closing
    /\ btn_update_playlist
    /\ LET playlist_file ==
               _find_playlist_file_by_display_name(
                  playlists_data, PlaylistText(playlist_combo))
       IN  /\ HasUrl(playlists_data, playlist_file)
           /\ download_threads' =
                 update_playlist_from_url(download_threads, playlists_data,
                                          playlist_file.v)
    /\ UNCHANGED <<player, ext, json_file, playlists_data, last_playlist,
                   playlist_combo, playlist_files, btn_update_playlist,
                   initializing_ui, startup>>

\* run() that writes what read() returned before it validates it
run_write_first(old, outcome, body) ==
    IF outcome = "error"
    THEN [success |-> FALSE, error |-> "urlopen", content |-> old]
    ELSE IF ~validate_m3u(body)
    THEN [success |-> FALSE, error |-> "no playlist", content |-> body]
    ELSE [success |-> TRUE, error |-> "", content |-> body]

\* PlaylistDownloadThread.run() over the content old of file_path: what it
\* emits and the content it leaves.  "error": urlopen or read raised;
\* otherwise body is what read() returned
run(old, outcome, body) ==
    IF outcome = "error"
    THEN [success |-> FALSE, error |-> "urlopen", content |-> old]
    ELSE IF ~validate_m3u(body)
    THEN [success |-> FALSE, error |-> "no playlist", content |-> old]
    ELSE [success |-> TRUE, error |-> "", content |-> body]

\* PlaylistDownloadThread.run() of thread t ends
DownloadRun(t, outcome, body) ==
    /\ t \in 1 .. Len(download_threads)
    /\ download_threads[t].phase = "running"
    /\ LET file_path == download_threads[t].file_path
           out == run(fs[file_path], outcome, body)
       IN  /\ download_threads' = [download_threads EXCEPT
                 ![t].phase = "emitted", ![t].success = out.success,
                 ![t].error = out.error]
           /\ fs' = [fs EXCEPT ![file_path] = out.content]
    /\ UNCHANGED <<channels, categories, category_combo, search_box,
                   channel_list, channel_icons, pending_icon_downloads,
                   icon_download_queue, _active_threads, timers, _is_closing,
                   parse_in, parse_out, ext, json_file, playlists_data,
                   last_playlist, playlist_combo, playlist_files,
                   btn_update_playlist, initializing_ui, startup>>

\* the event loop delivers thread t's finished signal to on_playlist_updated
PlaylistUpdated(t) ==
    /\ t \in 1 .. Len(download_threads)
    /\ download_threads[t].phase = "emitted"
    /\ download_threads' = [download_threads EXCEPT ![t].phase = "done"]
    /\ SetRegistry(on_playlist_updated(Registry, fs, search_box,
                                       download_threads[t].success,
                                       download_threads[t].file_path))
    /\ fault' = IF on_playlist_updated_raises(playlists_data,
                                              download_threads[t].success,
                                              download_threads[t].file_path)
                THEN "KeyError" ELSE fault
    /\ UNCHANGED <<fs, search_box, _is_closing, parse_in, parse_out, startup,
                   _opener, workers, pending_playlist_name, playing>>

\* a playlist file is deleted from the disk by another program
FileRemoved(path) ==
    /\ Exists(fs, path)
    /\ fs' = [fs EXCEPT ![path] = NoFile]
    /\ UNCHANGED <<channels, categories, category_combo, search_box,
                   channel_list, channel_icons, pending_icon_downloads,
                   icon_download_queue, _active_threads, timers, _is_closing,
                   parse_in, parse_out, ext, reg>>

-----------------------------------------------------------------------------
(* Specifications                                                          *)

\* the registry with no playlist in its combo box, the start-up timers done
RegOver(file, pd, last) ==
    /\ json_file = file
    /\ playlists_data = pd
    /\ last_playlist = last
    /\ playlist_combo = [items |-> <<>>, idx |-> 0]
    /\ playlist_files = <<>>
    /\ btn_update_playlist = FALSE
    /\ initializing_ui = FALSE
    /\ startup = "ready"
    /\ download_threads = <<>>

\* the state _init_data_structures and init_ui leave, over the files given;
\* line is the input of parse_m3u_line
InitPlayer(files, line) ==
    /\ fs = files
    /\ channels = <<>>
    /\ categories = (CATEGORY_ALL :> <<>>)
    /\ category_combo = [items |-> <<>>, idx |-> 0]
    /\ search_box = <<>>
    /\ channel_list = <<>>
    /\ channel_icons = EmptyDict
    /\ pending_icon_downloads = EmptyDict
    /\ icon_download_queue = <<>>
    /\ _active_threads = <<>>
    /\ timers = 0
    /\ _is_closing = FALSE
    /\ parse_in = line
    /\ parse_out = <<>>
    /\ _opener = <<>>
    /\ workers = <<>>
    /\ pending_playlist_name = NoAttr
    /\ playing = [item |-> 0, url |-> <<>>]
    /\ fault = ""

\* the same with no playlists.json and no registry entry
InitOver(files, line) ==
    /\ InitPlayer(files, line)
    /\ RegOver(JMissing, PyDict(<<>>), PyNone)

\* the model takes no step that leaves more than maxThreads threads in
\* _active_threads or more than maxQueue tasks in icon_download_queue
Bounded(maxThreads, maxQueue) ==
    /\ Len(_active_threads') <= maxThreads
    /\ Len(icon_download_queue') <= maxQueue

ThreadOutcomes == {"error", "ok", "null"}

MaxThreads == 2
MaxQueue == 4

Init == InitOver(SmallFiles, <<>>)

InBounds == Bounded(MaxThreads, MaxQueue)

Next ==
    \/ \E p \in Paths : LoadPlaylist(p) /\ InBounds
    \/ \E text \in SearchTexts : SearchEdited(text) /\ InBounds
    \/ TimerFire /\ InBounds
    \/ \E t \in 1 .. MaxThreads, o \in ThreadOutcomes : ThreadRun(t, o)
    \/ \E t \in 1 .. MaxThreads : IconLoaded(t) /\ InBounds
    \/ CloseEvent

Spec == Init /\ [][Next]_vars

\* one load of the six-logo playlist and the downloads that follow, with
\* no reload and no shutdown
CapThreads == 6
CapQueue == 12

InitCap == InitOver(CapFiles, <<>>)

InCap == Bounded(CapThreads, CapQueue)

NextCap ==
    \/ \E p \in Paths : channels = <<>> /\ LoadPlaylist(p) /\ InCap
    \/ TimerFire /\ InCap
    \/ \E t \in 1 .. CapThreads, o \in ThreadOutcomes : ThreadRun(t, o)
    \/ \E t \in 1 .. CapThreads : IconLoaded(t) /\ InCap

SpecCap == InitCap /\ [][NextCap]_vars

\* the same load with one edit of the search box, which discards every
\* item of the list, at any moment of the downloads
NextGone ==
    \/ \E p \in Paths : channels = <<>> /\ LoadPlaylist(p) /\ InCap
    \/ search_box = <<>> /\ SearchEdited(<<"b">>) /\ InCap
    \/ TimerFire /\ InCap
    \/ \E t \in 1 .. CapThreads, o \in ThreadOutcomes : ThreadRun(t, o)
    \/ \E t \in 1 .. CapThreads : IconLoaded(t) /\ InCap

SpecGone == InitCap /\ [][NextGone]_vars

\* parse_m3u_line on every info line of InfoLines
InitParse == \E line \in InfoLines : InitOver(SmallFiles, line)

NextParse == ParseLine

SpecParse == InitParse /\ [][NextParse]_vars

\* load_playlist over every playlist of LoadTexts, and the two filters
LoadQueue == 6

InitLoad == \E text \in LoadTexts : InitOver("p1" :> text @@ "p2" :> NoFile, <<>>)

InLoad == Bounded(0, LoadQueue)

\* load_playlist of a playlist and of a file that is none
InitBad ==
    \E good \in LoadTexts, bad \in BadTexts :
        InitOver("p1" :> good @@ "p2" :> bad, <<>>)

NextBad ==
    \/ \E p \in Paths : LoadPlaylist(p) /\ InLoad
    \/ \E i \in 1 .. 3 : CategoryActivated(i) /\ InLoad
    \/ \E text \in SearchTexts : SearchEdited(text) /\ InLoad

SpecBad == InitBad /\ [][NextBad]_vars

\* load_playlist of a playlist with lines between info line and URL line
InitGap == \E text \in GapTexts : InitOver("p1" :> text @@ "p2" :> NoFile, <<>>)

NextGap ==
    \/ \E p \in Paths : LoadPlaylist(p) /\ InLoad
    \/ \E i \in 1 .. 3 : CategoryActivated(i) /\ InLoad

SpecGap == InitGap /\ [][NextGap]_vars

\* search texts in both cases
LoadSearchTexts == SearchTexts \cup {<<"B">>}

NextLoad ==
    \/ \E p \in Paths : LoadPlaylist(p) /\ InLoad
    \/ \E i \in 1 .. 3 : CategoryActivated(i) /\ InLoad
    \/ \E text \in LoadSearchTexts : SearchEdited(text) /\ InLoad

SpecLoad == InitLoad /\ [][NextLoad]_vars


\* load_playlists_data()
LoadPlaylistsData ==
    /\ playlists_data' = load_playlists_data(json_file).playlists_data
    /\ last_playlist' = load_playlists_data(json_file).last_playlist
    /\ UNCHANGED <<player, ext, json_file, playlist_combo, playlist_files,
                   btn_update_playlist, initializing_ui, startup,
                   download_threads>>

\* save_playlists_data()
SavePlaylistsData ==
    /\ json_file' = save_playlists_data(playlists_data, last_playlist)
    /\ UNCHANGED <<player, ext, playlists_data, last_playlist, playlist_combo,
                   playlist_files, btn_update_playlist, initializing_ui,
                   startup, download_threads>>

\* registry entries: a local playlist, a playlist from a URL
LocalEntry(name) ==
    PyDict(<<[k |-> "name", val |-> PyStr(name)],
             [k |-> "last_updated", val |-> PyNum(1)]>>)

UrlEntry(name, url) ==
    PyDict(<<[k |-> "name", val |-> PyStr(name)],
             [k |-> "url", val |-> PyStr(url)],
             [k |-> "last_updated", val |-> PyNum(2)]>>)

\* registries in memory
Registries ==
    {PyDict(<<>>),
     PyDict(<<[k |-> "p1", val |-> LocalEntry("X")]>>),
     PyDict(<<[k |-> "p1", val |-> UrlEntry("X", "h1")]>>),
     PyDict(<<[k |-> "p2", val |-> UrlEntry("Y", "h2")],
              [k |-> "p1", val |-> LocalEntry("X")]>>)}

LastPlaylists == {PyNone, PyStr("p1"), PyStr("p2")}

\* the members a registry file may have, each present or absent
RegistryDocs ==
    {JObj(pl \o lp \o au) :
        pl \in {<<[k |-> "playlists", val |-> json_dump(r)]>> : r \in Registries},
        lp \in {<<>>} \cup {<<[k |-> "last_playlist", val |-> json_dump(l)]>> :
                               l \in {PyStr("p1"), PyStr("p2")}},
        au \in {<<>>} \cup {<<[k |-> "auto_update", val |-> JBool(b)]>> :
                               b \in BOOLEAN}}

\* playlists.json: missing, no JSON, JSON that is no object, a registry
JsonFiles ==
    {JMissing, JCorrupt, JNull, JArr(<<>>), JArr(<<JStr("p1")>>), JStr("p1"),
     JNum(1), JBool(TRUE)} \cup RegistryDocs

\* load_playlists_data and save_playlists_data over every file and every
\* registry in memory but the empty one, which a load has to produce
InitJson ==
    \E file \in JsonFiles, pd \in Registries, last \in LastPlaylists :
        /\ ~(pd = PyDict(<<>>) /\ last = PyNone)
        /\ InitPlayer(SmallFiles, <<>>)
        /\ RegOver(file, pd, last)

NextJson ==
    \/ LoadPlaylistsData
    \/ SavePlaylistsData

SpecJson == InitJson /\ [][NextJson]_vars

\* the registry and its controls: start-up, selection, refresh and delete
\* over playlists without logos
OneChannel == PlaylistFile(<<Entry(<<"A", "1">>, <<"s", "1">>, None, None)>>)
TwoChannels == PlaylistFile(<<Entry(<<"A", "1">>, <<"s", "1">>, None, None),
                              Entry(<<"B", "2">>, <<"s", "2">>, None, None)>>)

RegFiles ==
    {"p1" :> OneChannel @@ "p2" :> TwoChannels,
     "p1" :> OneChannel @@ "p2" :> NoFile}

\* registries with a URL entry and a local one, under two names and under
\* one, and with one entry only
RegRegistries ==
    {PyDict(<<[k |-> "p1", val |-> UrlEntry("X", "h1")],
              [k |-> "p2", val |-> LocalEntry("Y")]>>),
     PyDict(<<[k |-> "p1", val |-> UrlEntry("X", "h1")],
              [k |-> "p2", val |-> LocalEntry("X")]>>),
     PyDict(<<[k |-> "p1", val |-> LocalEntry("X")]>>),
     PyDict(<<[k |-> "p1", val |-> UrlEntry("X", "h1")]>>)}

\* what read() returns: nothing, text that is no playlist, a playlist
DownloadBodies == {<<>>, <<<<"h", "e", "l", "l", "o">>>>, PlaylistFile(<<>>)}

DownloadOutcomes == {"error", "read"}

MaxDownloads == 2

\* the state after __init__: load_playlists_data(), then init_ui() with
\* its update_playlist_list() while initializing_ui is set
InitReg ==
    \E pd \in RegRegistries, last \in LastPlaylists, files \in RegFiles :
        LET doc    == save_playlists_data(pd, last)
            loaded == load_playlists_data(doc)
            pl0    == [channels |-> <<>>, categories |-> (CATEGORY_ALL :> <<>>),
                       icons |-> EmptyDict, pend |-> EmptyDict,
                       w |-> [combo |-> [items |-> <<>>, idx |-> 0],
                              list |-> <<>>, queue |-> <<>>, threads |-> <<>>,
                              timers |-> 0]]
            r      == update_playlist_list(
                         [pd |-> loaded.playlists_data,
                          last |-> loaded.last_playlist, json |-> doc,
                          combo |-> [items |-> <<>>, idx |-> 0], files |-> <<>>,
                          btn |-> FALSE, init |-> TRUE, pl |-> pl0],
                         files, <<>>)
        IN  /\ InitPlayer(files, <<>>)
            /\ json_file = doc
            /\ playlists_data = r.pd
            /\ last_playlist = r.last
            /\ playlist_combo = r.combo
            /\ playlist_files = r.files
            /\ btn_update_playlist = FALSE
            /\ initializing_ui = TRUE
            /\ startup = "new"
            /\ download_threads = <<>>

InReg == Len(download_threads') <= MaxDownloads

NextReg ==
    \/ \E needs_update \in SUBSET Paths : LoadInitialPlaylist(needs_update) /\ InReg
    \/ CompleteUiInit
    \/ \E i \in 1 .. 2 : PlaylistActivated(i)
    \/ DeleteClicked
    \/ UpdateClicked /\ InReg
    \/ \E t \in 1 .. MaxDownloads, o \in DownloadOutcomes, body \in DownloadBodies :
          DownloadRun(t, o, body)
    \/ \E t \in 1 .. MaxDownloads : PlaylistUpdated(t)
    \/ \E path \in Paths : FileRemoved(path)

SpecReg == InitReg /\ [][NextReg]_vars

-----------------------------------------------------------------------------
(* Properties                                                              *)

\* the threads whose run() has started and not yet returned
Outstanding == {t \in 1 .. Len(_active_threads) : _active_threads[t].phase = "running"}

\* C1: at any moment at most one fetch is outstanding for a given logo URL,
\* reloads of the playlist included
C1_OneFetchPerUrl ==
    \A t1, t2 \in Outstanding :
        _active_threads[t1].url = _active_threads[t2].url => t1 = t2

\* the channels filter_channels shows, row by row of channel_list
ShownChannels ==
    LET current == ComboText(category_combo)
    IN  IF current \in DOMAIN categories
        THEN SearchFilter(categories[current], PyLower(search_box))
        ELSE <<>>

\* C2: two list items asked for the same uncached logo URL while its fetch
\* is under way both receive the outcome of that fetch: two rows of the list
\* with the same logo URL never show different icons
C2_BothItemsSameOutcome ==
    /\ Len(ShownChannels) = Len(channel_list)
    /\ \A i, j \in 1 .. Len(channel_list) :
          (/\ Truthy(ShownChannels[i].logo)
           /\ ShownChannels[i].logo = ShownChannels[j].logo)
          => channel_list[i].icon = channel_list[j].icon

\* C3: never more than MAX_CONCURRENT_DOWNLOADS fetches are in flight: at
\* most that many URLs are pending and at most that many threads are running
C3_AtMostKInFlight ==
    /\ Cardinality(DOMAIN pending_icon_downloads) <= MAX_CONCURRENT_DOWNLOADS
    /\ Cardinality(Outstanding) <= MAX_CONCURRENT_DOWNLOADS

\* MAX_CONCURRENT_DOWNLOADS URLs are in flight and a further task waits
C3_Witness ==
    /\ Cardinality(DOMAIN pending_icon_downloads) = MAX_CONCURRENT_DOWNLOADS
    /\ Cardinality(Outstanding) = MAX_CONCURRENT_DOWNLOADS
    /\ icon_download_queue # <<>>

\* the logo URLs of the loaded channels
RequestedUrls ==
    {channels[k].logo : k \in 1 .. Len(channels)} \ {None}

\* every requested URL is in the cache and nothing is queued or pending
AllResolved ==
    /\ RequestedUrls \subseteq DOMAIN channel_icons
    /\ icon_download_queue = <<>>
    /\ pending_icon_downloads = EmptyDict

\* no timer is pending and every thread has returned and been delivered:
\* nothing more happens to the downloads
AtRest ==
    /\ timers = 0
    /\ \A t \in 1 .. Len(_active_threads) : _active_threads[t].phase = "done"

\* C4: when more than MAX_CONCURRENT_DOWNLOADS distinct uncached URLs are
\* requested, the downloads do not come to rest before all of them are
\* resolved and the queue and the pending set are empty
C4_AllResolvedAtRest ==
    (Cardinality(RequestedUrls) > MAX_CONCURRENT_DOWNLOADS /\ AtRest)
    => AllResolved

\* C5: a fetch that ends in a transport error is handled like one whose
\* bytes do not decode: the URL leaves the pending set and the placeholder
\* is cached for it
C5_TransportErrorLikeDecodeFailure ==
    \A t \in 1 .. Len(_active_threads) :
        (/\ _active_threads[t].phase = "done"
         /\ _active_threads[t].result \in {"error", "null"})
        => /\ _active_threads[t].url \notin DOMAIN pending_icon_downloads
           /\ _active_threads[t].url \in DOMAIN channel_icons
           /\ channel_icons[_active_threads[t].url] = FallbackIcon

\* C6: while the window is open the icon cache only grows: a URL once in
\* channel_icons stays there, across reloads of the playlist too
C6_CacheOnlyGrows ==
    [][~_is_closing' => DOMAIN channel_icons \subseteq DOMAIN channel_icons']_vars

\* the 0-based index of the last sub in s at or after start, -1 if none
RECURSIVE LastFind(_, _, _)
LastFind(s, sub, start) ==
    LET k == PyFind(s, sub, start)
    IN  IF k = -1 THEN -1
        ELSE Max2(k, LastFind(s, sub, k + 1))

AfterLastComma(line) ==
    PyStrip(PySlice(line, LastFind(line, <<",">>, 0) + 1, Len(line)))

\* #EXTINF:-1 group-title="A, B",Channel One
ExampleLine ==
    InfoLine(<<"A", ",", " ", "B">>, None,
             <<"C", "h", "a", "n", "n", "e", "l", " ", "O", "n", "e">>)

\* C7: parse_m3u_line takes as the name the text after the last comma of the
\* info line, so a comma inside an attribute does not split the name:
\* the example line gives name "Channel One" and group "A, B"
C7_NameAfterLastComma ==
    (parse_out # <<>> /\ PyIn(<<",">>, parse_in))
    => /\ parse_out[1].name = AfterLastComma(parse_in)
       /\ parse_in = ExampleLine
          => parse_out[1].group = <<"A", ",", " ", "B">>

\* how many times x occurs in the sequence s
Count(s, x) == Cardinality({k \in 1 .. Len(s) : s[k] = x})

\* the category sequences other than CATEGORY_ALL
GroupKeys == (DOMAIN categories) \ {CATEGORY_ALL}

\* C8: after a load every channel is exactly once in categories[its group]
\* and exactly once in categories[CATEGORY_ALL], and the sequences of the
\* other categories, CATEGORY_NONE included, partition the channels
C8_GroupPartition ==
    \A k \in 1 .. Len(channels) :
        /\ channels[k].group \in DOMAIN categories
        /\ Count(categories[channels[k].group], channels[k]) = 1
        /\ Count(categories[CATEGORY_ALL], channels[k]) = 1
        /\ Cardinality({g \in GroupKeys : Count(categories[g], channels[k]) > 0}) = 1

\* the info lines of a playlist text
EntryCount(text) ==
    Cardinality({k \in 1 .. Len(text) : PyStartsWith(text[k], S_EXTINF)})

\* C9: a playlist of N well-formed pairs loads as exactly N channels,
\* whatever its group-title values are, and categories[CATEGORY_ALL] is the
\* sequence channels
C9_AllChannelsListed ==
    /\ categories[CATEGORY_ALL] = channels
    /\ category_combo.items # <<>> => Len(channels) = EntryCount(fs["p1"])

\* C10: the category list is in lexical order, except that CATEGORY_ALL
\* comes first
C10_AllFirstThenSorted ==
    category_combo.items # <<>>
    => /\ category_combo.items[1] = CATEGORY_ALL
       /\ \A k \in 2 .. Len(category_combo.items) - 1 :
             PyStrLess(category_combo.items[k], category_combo.items[k + 1])

\* name contains S, letters compared without regard to case
ContainsCI(name, S) ==
    \E off \in 0 .. Len(name) - Len(S) :
        \A k \in 1 .. Len(S) : PyLower(<<name[off + k]>>) = PyLower(<<S[k]>>)

\* the channels of the current category whose name contains the search text
ExpectedShown ==
    LET C == ComboText(category_combo)
    IN  IF C \in DOMAIN categories
        THEN SelectSeq(categories[C], LAMBDA ch : ContainsCI(ch.name, search_box))
        ELSE <<>>

\* a step of filter_channels alone: the search box or the selection changed
FilterStep ==
    \/ search_box' # search_box
    \/ /\ category_combo'.items = category_combo.items
       /\ category_combo'.idx # category_combo.idx

\* C11: filter_channels lists exactly the channels of the category whose
\* name contains the search text case-insensitively, in the order of the
\* category (a subsequence of the list for the empty search); a category
\* that is no key gives the empty list; channels and categories are unchanged
C11_FilterShowsMatches ==
    /\ [](/\ Len(channel_list) = Len(ExpectedShown)
          /\ \A k \in 1 .. Len(channel_list) :
                channel_list[k].text = ExpectedShown[k].name)
    /\ [][FilterStep => channels' = channels /\ categories' = categories]_vars

\* a search in the other case than the name keeps one channel of two
C11_Witness ==
    /\ search_box = <<"b">>
    /\ Len(channel_list) = 1
    /\ channel_list[1].text = <<"B", "2">>
    /\ Len(categories[ComboText(category_combo)]) = 2

\* validate_m3u(content) of the text of a file that was read to its end
IsPlaylist(text) ==
    /\ \A k \in 1 .. Len(text) : text[k] # ReadError
    /\ \E k \in 1 .. Len(text) :
          PyIn(S_EXTM3U, text[k]) \/ PyIn(S_EXTINF, text[k])

\* C12: load_playlist of a file that is empty, has neither #EXTM3U nor
\* #EXTINF, or fails to read leaves channels and categories as they were:
\* they change only to the complete parse of a playlist
C12_BadFileKeepsIndex ==
    [][(channels' # channels \/ categories' # categories)
       => \E p \in Paths :
             /\ IsPlaylist(fs[p])
             /\ channels' = Parsed[fs[p]].channels
             /\ categories' = Parsed[fs[p]].categories]_vars

\* playlists.json is missing, is no JSON, or is JSON that is no object
BadRegistryFile == json_file.t # "object"

\* C14: load_playlists_data on a missing or corrupt playlists.json (no
\* JSON, or JSON that is no object) leaves the empty registry:
\* playlists_data = {} and last_playlist = None
C14_CorruptGivesEmpty ==
    [][(BadRegistryFile /\ json_file' = json_file)
       => (playlists_data' = PyDict(<<>>) /\ last_playlist' = PyNone)]_vars

\* the registry is empty after a load of a file that is JSON but no object
C14_Witness ==
    /\ json_file = JArr(<<JStr("p1")>>)
    /\ playlists_data = PyDict(<<>>)
    /\ last_playlist = PyNone

\* the keys of an object's members other than those that are null
SetKeys(doc) == {doc.v[i].k : i \in {j \in 1 .. Len(doc.v) : doc.v[j].val # JNull}}

\* two objects with the same keys and the same value for each key, a
\* member that is null counting as absent
SameMembers(a, b) ==
    /\ SetKeys(a) = SetKeys(b)
    /\ \A i \in 1 .. Len(a.v), j \in 1 .. Len(b.v) :
          a.v[i].k = b.v[j].k => a.v[i].val = b.v[j].val

\* the registry in memory is what load_playlists_data reads from the file
JustLoaded ==
    /\ playlists_data = load_playlists_data(json_file).playlists_data
    /\ last_playlist = load_playlists_data(json_file).last_playlist

\* C15: for a registry file of the documented format (playlists,
\* last_playlist, optional auto_update) load_playlists_data followed by
\* save_playlists_data leaves the file with the same keys and values
C15_LoadSaveKeepsFile ==
    [][(json_file \in RegistryDocs /\ JustLoaded /\ json_file' # json_file)
       => SameMembers(json_file, json_file')]_vars

\* C16: save_playlists_data followed by load_playlists_data gives back the
\* registry that was in memory: an equal playlists_data mapping and the
\* same last_playlist
C16_SaveLoadKeepsRegistry ==
    [][json_file' # json_file
       => /\ load_playlists_data(json_file').playlists_data = playlists_data
          /\ load_playlists_data(json_file').last_playlist = last_playlist]_vars

\* a registry of a URL entry and a local entry, no last playlist, was saved
C16_Witness ==
    /\ Len(playlists_data.v) = 2
    /\ last_playlist = PyNone
    /\ json_file = save_playlists_data(playlists_data, last_playlist)
    /\ load_playlists_data(json_file).playlists_data = playlists_data

\* C13: load_playlist on a path whose file does not exist leaves channels,
\* categories, the icon cache, the queue, the in-flight set and the widgets
\* as they were, and the user's selecting a registry entry, the one of a
\* missing file included, changes none of these when the file is missing and
\* never changes playlists_data
MissingFile(i) ==
    LET f == _find_playlist_file_by_display_name(playlists_data,
                                                  playlist_combo.items[i])
    IN  f # PyNone /\ ~Exists(fs, f.v)

C13_MissingFileLeavesState ==
    /\ [](\A p \in Paths :
             ~Exists(fs, p) => load_playlist(Player, fs, search_box, p) = Player)
    /\ [][\A i \in 1 .. 2 :
             PlaylistActivated(i) =>
                /\ playlists_data' = playlists_data
                /\ MissingFile(i) =>
                      UNCHANGED <<channels, categories, channel_icons,
                                  icon_download_queue, pending_icon_downloads,
                                  channel_list, category_combo>>]_vars

\* the entry of the deleted file p2 was selected while the channels of p1
\* were shown
C13_Witness ==
    /\ ~Exists(fs, "p2")
    /\ PyDictHas(playlists_data, "p2")
    /\ PlaylistText(playlist_combo) = "Y"
    /\ last_playlist = PyStr("p2")
    /\ channels = Parsed[OneChannel].channels
    /\ channels # <<>>

\* C17: in every reachable state the refresh button is enabled only if the
\* playlist selected in the combo box is a registry entry with 'url'
C17_RefreshOnlyForUrl ==
    btn_update_playlist =>
        HasUrl(playlists_data,
               _find_playlist_file_by_display_name(playlists_data,
                                                   PlaylistText(playlist_combo)))

\* C18: a playlist download that ends with an error, by a failure of the
\* network or by content validate_m3u rejects, emits finished(False, error)
\* and leaves every file as it was; a file changes under a download only to
\* a body validate_m3u accepts, with finished(True, '') emitted
Ends(t) ==
    /\ t <= Len(download_threads)
    /\ download_threads[t].phase = "running"
    /\ download_threads'[t].phase = "emitted"

C18_FailedDownloadKeepsFile ==
    [][/\ \A t \in DOMAIN download_threads :
             Ends(t) /\ ~download_threads'[t].success =>
                /\ fs' = fs
                /\ download_threads'[t].error # ""
       /\ \A p \in Paths :
             fs'[p] # fs[p] /\ fs'[p] # NoFile =>
                /\ validate_m3u(fs'[p])
                /\ \E t \in DOMAIN download_threads :
                      /\ Ends(t)
                      /\ download_threads'[t].success
                      /\ download_threads[t].file_path = p]_vars

\* a refresh of p1 got text that is no playlist, another one no answer, and
\* the file of p1 is the playlist it was
C18_Witness ==
    /\ Len(download_threads) = 2
    /\ download_threads[1].phase = "emitted"
    /\ download_threads[1].error = "no playlist"
    /\ download_threads[2].phase = "emitted"
    /\ download_threads[2].error = "urlopen"
    /\ download_threads[1].file_path = "p1"
    /\ download_threads[2].file_path = "p1"
    /\ fs["p1"] = OneChannel

\* C19: when the finished signal of a fetch is delivered for a list item
\* that filter_channels has discarded, the URL leaves pending_icon_downloads,
\* its outcome is in channel_icons, the queue was run (it is empty or the
\* limit is reached), and for every other URL the pending entry, the cache
\* entry and the queued tasks not started are as before
Delivered(t) ==
    /\ _active_threads[t].phase = "emitted"
    /\ _active_threads'[t].phase = "done"

C19_DiscardedItemCompletion ==
    [][\A t \in DOMAIN _active_threads :
          Delivered(t) /\ _active_threads[t].item = 0 /\ ~_is_closing =>
             LET u    == _active_threads[t].url
                 icon == IF _active_threads[t].result = "ok"
                         THEN ImageIcon(u) ELSE FallbackIcon
             IN  /\ u \notin DOMAIN pending_icon_downloads'
                 /\ u \in DOMAIN channel_icons'
                 /\ channel_icons'[u] = icon
                 /\ \/ icon_download_queue' = <<>>
                    \/ Cardinality(DOMAIN pending_icon_downloads')
                          >= MAX_CONCURRENT_DOWNLOADS
                 /\ \A v \in (DOMAIN pending_icon_downloads) \ {u} :
                       /\ v \in DOMAIN pending_icon_downloads'
                       /\ pending_icon_downloads'[v] = pending_icon_downloads[v]
                 /\ \A v \in (DOMAIN pending_icon_downloads')
                                \ DOMAIN pending_icon_downloads :
                       \E i \in DOMAIN icon_download_queue :
                          icon_download_queue[i].url = v
                 /\ DOMAIN channel_icons' = DOMAIN channel_icons \cup {u}
                 /\ \A v \in (DOMAIN channel_icons) \ {u} :
                       channel_icons'[v] = channel_icons[v]
                 /\ \E k \in 0 .. Len(icon_download_queue) :
                       icon_download_queue' =
                          SubSeq(icon_download_queue, k + 1, Len(icon_download_queue))
                 /\ channel_list' = channel_list]_vars

\* no item is listed, a completion was delivered and cached, and the sixth
\* task, queued with an item since discarded, was started in its place
C19_Witness ==
    /\ search_box = <<"b">>
    /\ channel_list = <<>>
    /\ Len(_active_threads) = 6
    /\ _active_threads[6].phase = "running"
    /\ _active_threads[6].url \in DOMAIN pending_icon_downloads
    /\ Cardinality(DOMAIN pending_icon_downloads) = MAX_CONCURRENT_DOWNLOADS
    /\ \E t \in 1 .. 5 :
          /\ _active_threads[t].phase = "done"
          /\ _active_threads[t].result = "ok"
          /\ _active_threads[t].url \in DOMAIN channel_icons
          /\ _active_threads[t].url \notin DOMAIN pending_icon_downloads

\* C20: after _cleanup_channels_and_threads has stopped a fetch, the
\* delivery of its finished signal, emitted before the stop or not, writes
\* nothing to channel_icons and leaves every entry of pending_icon_downloads,
\* all of them created after the stop, as it is
C20_StoppedResultDiscarded ==
    [][\A t \in DOMAIN _active_threads :
          Delivered(t) /\ ~_active_threads[t].running =>
             /\ channel_icons' = channel_icons
             /\ \A v \in DOMAIN pending_icon_downloads :
                   /\ v \in DOMAIN pending_icon_downloads'
                   /\ pending_icon_downloads'[v] = pending_icon_downloads[v]]_vars

\* C21: get_channel_icon on any listed item leaves the placeholder icon on
\* the item unless the URL is cached; for an absent or empty URL it queues
\* nothing and starts nothing; for a URL in channel_icons it sets the cached
\* icon at once and queues nothing and starts nothing
IconUrls == {None, <<>>, U1, U2}

C21_NoFetchForEmptyOrCached ==
    \A item \in DOMAIN channel_list : \A url \in IconUrls :
        LET w == get_channel_icon(Widgets, channel_icons, pending_icon_downloads,
                                  url, channel_list[item].text, item)
        IN  /\ w.list = [channel_list EXCEPT ![item].icon =
                            IF url \in DOMAIN channel_icons
                            THEN channel_icons[url] ELSE FallbackIcon]
            /\ w.threads = _active_threads
            /\ w.combo = category_combo
            /\ url \in {None, <<>>} \cup DOMAIN channel_icons =>
                  /\ w.queue = icon_download_queue
                  /\ w.timers = timers

\* the second channel of the logo u1, for which no fetch was started, shows
\* the image from the cache, and nothing is queued
C21_Witness ==
    /\ Len(channel_list) = 2
    /\ U1 \in DOMAIN channel_icons
    /\ channel_list[2].icon = ImageIcon(U1)
    /\ icon_download_queue = <<>>
    /\ ~_is_closing

\* C22: queued tasks are started in the order of the queue: when the first
\* task of URL b is started, every task queued before it for another URL that
\* was neither cached nor in flight has been started before it; and while the
\* window is open a task waits only while MAX_CONCURRENT_DOWNLOADS fetches
\* are in flight or a dispatch is scheduled
StartedAt(u) ==
    {t \in (DOMAIN _active_threads') \ DOMAIN _active_threads :
        _active_threads'[t].url = u}

Waiting(u) ==
    /\ u \notin DOMAIN pending_icon_downloads
    /\ u \notin DOMAIN channel_icons

FifoStep ==
    \A i, j \in DOMAIN icon_download_queue :
        LET a == icon_download_queue[i].url
            b == icon_download_queue[j].url
        IN  /\ i < j /\ a # b /\ Waiting(a) /\ Waiting(b) /\ StartedAt(b) # {}
            /\ \A k \in 1 .. j - 1 : icon_download_queue[k].url # b
            =>
               \E ta \in StartedAt(a) : \A tb \in StartedAt(b) : ta < tb

\* the fetches that have not ended
InFlight == {t \in DOMAIN _active_threads : _active_threads[t].phase # "done"}

SlotUsed ==
    ~_is_closing /\ icon_download_queue # <<>> /\ timers = 0 =>
        Cardinality(InFlight) >= MAX_CONCURRENT_DOWNLOADS

C22_FifoDispatch == []SlotUsed /\ [][FifoStep]_vars

\* C23: blank lines and comment lines other than #EXTINF between an info
\* line and its URL line leave the pending info alone, and of several info
\* lines before one URL line the last one applies: the URL line gives one
\* channel with the name, group and logo parse_m3u_line reads from the last
\* info line (none when that line has no name); a URL line with no pending
\* info gives no channel
Loaded == category_combo.items # <<>>

OneFrom(info) ==
    LET cur == parse_m3u_line(PyStrip(info)) IN
    IF Truthy(cur.name)
    THEN <<Channel(cur.name, GapUrl, PyOr(cur.group, CATEGORY_NONE), cur.logo)>>
    ELSE <<>>

C23_LastInfoApplies ==
    Loaded =>
       /\ \A first \in FirstInfos, gap1 \in Fillers, next \in NextInfos,
             gap2 \in Fillers :
             fs["p1"] = GapText(first, gap1, next, gap2) =>
                channels = OneFrom(IF next = <<>> THEN first ELSE next[1])
       /\ fs["p1"] \in {<<S_EXTM3U, GapUrl>>, <<S_EXTM3U, <<"#", "c">>, GapUrl>>} =>
             channels = <<>>
       /\ fs["p1"] = <<S_EXTM3U, InfoLine(None, None, <<"A", "1">>), GapUrl,
                       <<"s", "2">>>> =>
             channels = OneFrom(InfoLine(None, None, <<"A", "1">>))

\* two info lines with a comment line after each were loaded as one channel
\* of the second info line
C23_Witness ==
    /\ Loaded
    /\ fs["p1"] = GapText(InfoLine(<<"A">>, U1, <<"A", "1">>), <<<<"#", "c">>>>,
                          <<InfoLine(<<"U042F">>, None, <<"B", "2">>)>>,
                          <<<<>>, <<"#", "c">>, <<>>>>)
    /\ Len(channels) = 1
    /\ channels[1].name = <<"B", "2">>
    /\ channels[1].group = <<"U042F">>
    /\ channels[1].logo = None
    /\ channels[1].url = GapUrl

-----------------------------------------------------------------------------
(* The requests of the worker threads                                      *)

USER_AGENT == "Mozilla/5.0"

\* opener.addheaders of PlaylistDownloadThread.run and ImageDownloadThread.run
PlaylistHeaders == << <<"User-Agent", USER_AGENT>> >>
ImageHeaders ==
    << <<"User-Agent", "Mozilla/5.0 (Windows NT 10.0; Win64; x64) AppleWebKit/537.36">>,
       <<"Accept", "image/webp,image/apng,image/*,*/*;q=0.8">>,
       <<"Accept-Language", "en-US,en;q=0.9">>,
       <<"Referer", "http://www.google.com/">> >>

addheaders(kind) == IF kind = "playlist" THEN PlaylistHeaders ELSE ImageHeaders

MaxWorkers == 3

\* download_thread.start(): the thread is at the top of run
StartWorker(kind) ==
    /\ Len(workers) < MaxWorkers
    /\ workers' = Append(workers, [kind |-> kind, pc |-> "run", sent |-> <<>>])
    /\ UNCHANGED <<player, reg, _opener, pending_playlist_name, playing, fault>>

\* build_opener, addheaders and urllib.request.install_opener(opener), which
\* assigns the module global urllib.request._opener
InstallOpener(w) ==
    /\ w \in DOMAIN workers
    /\ workers[w].pc = "run"
    /\ _opener' = addheaders(workers[w].kind)
    /\ workers' = [workers EXCEPT ![w].pc = "installed"]
    /\ UNCHANGED <<player, reg, pending_playlist_name, playing, fault>>

\* urllib.request.urlopen(request): the request is opened by the opener that
\* is installed now and goes out with that opener's addheaders
UrlOpen(w) ==
    /\ w \in DOMAIN workers
    /\ workers[w].pc = "installed"
    /\ workers' = [workers EXCEPT ![w].pc = "sent", ![w].sent = _opener]
    /\ UNCHANGED <<player, reg, _opener, pending_playlist_name, playing, fault>>

NextOpener ==
    \/ \E kind \in {"playlist", "image"} : StartWorker(kind)
    \/ \E w \in 1 .. MaxWorkers : InstallOpener(w)
    \/ \E w \in 1 .. MaxWorkers : UrlOpen(w)

SpecOpener == Init /\ [][NextOpener]_vars

\* C24: a worker changes nothing another worker reads, so every request
\* goes out with the headers its own thread configured
C24_OwnHeaders ==
    \A w \in DOMAIN workers :
        workers[w].pc = "sent" => workers[w].sent = addheaders(workers[w].kind)

-----------------------------------------------------------------------------
(* Restarting the program                                                  *)

\* the window is closed and the program is started again: __init__ reads
\* playlists.json and init_ui fills the combo box while initializing_ui is
\* set; the worker threads of the old process are gone
Restart ==
    /\ startup = "ready"
    /\ LET loaded == load_playlists_data(json_file)
           pl0    == [channels |-> <<>>, categories |-> (CATEGORY_ALL :> <<>>),
                      icons |-> EmptyDict, pend |-> EmptyDict,
                      w |-> [combo |-> [items |-> <<>>, idx |-> 0],
                             list |-> <<>>, queue |-> <<>>, threads |-> <<>>,
                             timers |-> 0]]
       IN  SetRegistry(update_playlist_list(
                          [pd |-> loaded.playlists_data,
                           last |-> loaded.last_playlist, json |-> json_file,
                           combo |-> [items |-> <<>>, idx |-> 0], files |-> <<>>,
                           btn |-> FALSE, init |-> TRUE, pl |-> pl0],
                          fs, <<>>))
    /\ search_box' = <<>>
    /\ _is_closing' = FALSE
    /\ startup' = "new"
    /\ download_threads' = <<>>
    /\ UNCHANGED <<fs, parse_in, parse_out, ext>>

\* registries whose last_playlist is one of their keys or absent: the ones
\* of InitReg and one whose URL entry has no file yet
RestartRegistries ==
    RegRegistries
    \cup {PyDict(<<[k |-> "p1", val |-> LocalEntry("X")],
                   [k |-> "p2", val |-> UrlEntry("Y", "h2")]>>)}

InitRestart ==
    \E pd \in RestartRegistries, last \in LastPlaylists, files \in RegFiles :
        /\ last # PyNone => PyDictHas(pd, last.v)
        /\ InitPlayer(files, <<>>)
        /\ json_file = save_playlists_data(pd, last)
        /\ playlists_data = pd
        /\ last_playlist = last
        /\ playlist_combo = [items |-> <<>>, idx |-> 0]
        /\ playlist_files = <<>>
        /\ btn_update_playlist = FALSE
        /\ initializing_ui = FALSE
        /\ startup = "ready"
        /\ download_threads = <<>>

MaxRestartDownloads == 1

InRestart == Len(download_threads') <= MaxRestartDownloads

NextRestart ==
    \/ Restart
    \/ \E needs_update \in SUBSET Paths :
          LoadInitialPlaylist(needs_update) /\ InRestart
    \/ CompleteUiInit
    \/ \E i \in 1 .. 2 : PlaylistActivated(i)
    \/ DeleteClicked
    \/ \E t \in 1 .. MaxRestartDownloads : DownloadRun(t, "read", TwoChannels)

SpecRestart == InitRestart /\ [][NextRestart]_vars

\* C25: the last_playlist in playlists.json is absent or a key of the
\* playlists there, and _load_initial_playlist after a restart loads that
\* entry when its file exists and otherwise the first entry whose file
\* exists, so never a playlist that was deleted from the registry
Persisted == load_playlists_data(json_file)

LastIsKey ==
    \/ Persisted.last_playlist = PyNone
    \/ PyDictHas(Persisted.playlists_data, Persisted.last_playlist.v)

Listed == SelectSeq(PyDictKeys(playlists_data), LAMBDA k : Exists(fs, k))

InitialLoadStep ==
    (startup = "new" /\ startup' = "loaded") =>
        IF Listed = <<>> THEN channels' = <<>>
        ELSE LET target ==
                     IF /\ last_playlist # PyNone
                        /\ PyDictHas(playlists_data, last_playlist.v)
                        /\ Exists(fs, last_playlist.v)
                     THEN last_playlist.v ELSE Listed[1]
             IN  channels' = Parsed[fs[target]].channels

C25_RestartLoadsRegistered == []LastIsKey /\ [][InitialLoadStep]_vars

\* C26: when a registry entry is deleted while its refresh download is in
\* flight, the completion on_playlist_updated(success=True) raises nothing,
\* does not put the entry back and leaves playlists_data as it is
LateCompletion(t) ==
    /\ download_threads[t].phase = "emitted"
    /\ download_threads'[t].phase = "done"
    /\ download_threads[t].success
    /\ ~PyDictHas(playlists_data, download_threads[t].file_path)

C26_LateCompletionHarmless ==
    [][\A t \in DOMAIN download_threads :
          LateCompletion(t) =>
             /\ fault' = ""
             /\ playlists_data' = playlists_data
             /\ ~PyDictHas(playlists_data', download_threads[t].file_path)]_vars

-----------------------------------------------------------------------------
(* Adding a playlist from a URL                                            *)

DOWNLOADED == "downloaded.m3u"

MaxAdds == 2

\* f"playlist_{i}.m3u" and f"Плейлист {i}"
PlaylistN(i) == "playlist_" \o ToString(i) \o ".m3u"
DefaultName(i) == "U041FU043BU0435U0439U043BU0438U0441U0442 " \o ToString(i)

AddPaths == {DOWNLOADED} \cup {PlaylistN(i) : i \in 1 .. MaxAdds + 1}

\* the URLs the user enters, the name entered with each and what the server
\* of each returns
AddUrls == {"h1", "h2"}
NameOf(url) == IF url = "h1" THEN "N1" ELSE "N2"
BodyOf(url) == IF url = "h1" THEN OneChannel ELSE TwoChannels

\* OK in the add dialog with a URL and a name: load_playlist_from_url(url,
\* dialog, playlist_name); the dialog stays open until a download succeeds
AddFromUrl(url) ==
    /\ ~_is_closing
    /\ Len(download_threads) < MaxAdds
    /\ pending_playlist_name' = PyStr(NameOf(url))
    /\ download_threads' = Append(download_threads, NewDownload(url, DOWNLOADED))
    /\ UNCHANGED <<player, json_file, playlists_data, last_playlist,
                   playlist_combo, playlist_files, btn_update_playlist,
                   initializing_ui, startup, _opener, workers, playing, fault>>

\* the first i from 1 with no file playlist_i.m3u
RECURSIVE FreeIndex(_, _)
FreeIndex(fsys, i) ==
    IF Exists(fsys, PlaylistN(i)) THEN FreeIndex(fsys, i + 1) ELSE i

\* on_playlist_downloaded(True, "", dialog, url) after os.rename succeeded
on_playlist_downloaded(r0, fsys, search, pending, url) ==
    LET i == FreeIndex(fsys, 1)
        new_playlist_name == PlaylistN(i)
        fs1 == [fsys EXCEPT ![new_playlist_name] = fsys[DOWNLOADED],
                            ![DOWNLOADED] = NoFile]
        playlist_display_name ==
            IF pending = NoAttr \/ pending = PyStr("") THEN DefaultName(i)
            ELSE pending.v
        pd1 == PyDictSet(r0.pd, new_playlist_name,
                         PyDict(<<[k |-> "name", val |-> PyStr(playlist_display_name)],
                                  [k |-> "url", val |-> PyStr(url)],
                                  [k |-> "last_updated", val |-> Now]>>))
    IN  Let(update_playlist_list(
               [r0 EXCEPT !.files = Append(@, new_playlist_name),
                          !.pd = pd1,
                          !.json = save_playlists_data(pd1, r0.last)],
               fs1, search),
            LAMBDA r1 :
               [r  |-> [r1 EXCEPT !.pl = load_playlist(r1.pl, fs1, search,
                                                       new_playlist_name)],
                fs |-> fs1])

\* the event loop delivers thread t's finished signal to
\* on_playlist_downloaded, which is no safe_call: os.rename raises
\* FileNotFoundError when downloaded.m3u is not there
PlaylistDownloaded(t) ==
    /\ t \in 1 .. Len(download_threads)
    /\ download_threads[t].phase = "emitted"
    /\ download_threads[t].file_path = DOWNLOADED
    /\ download_threads' = [download_threads EXCEPT ![t].phase = "done"]
    /\ IF ~download_threads[t].success
       THEN UNCHANGED <<fs, channels, categories, channel_icons,
                        pending_icon_downloads, category_combo, channel_list,
                        icon_download_queue, _active_threads, timers,
                        json_file, playlists_data, last_playlist,
                        playlist_combo, playlist_files, btn_update_playlist,
                        initializing_ui, pending_playlist_name, fault>>
       ELSE IF ~Exists(fs, DOWNLOADED)
       THEN /\ fault' = "FileNotFoundError"
            /\ UNCHANGED <<fs, channels, categories, channel_icons,
                           pending_icon_downloads, category_combo, channel_list,
                           icon_download_queue, _active_threads, timers,
                           json_file, playlists_data, last_playlist,
                           playlist_combo, playlist_files, btn_update_playlist,
                           initializing_ui, pending_playlist_name>>
       ELSE LET out == on_playlist_downloaded(Registry, fs, search_box,
                                              pending_playlist_name,
                                              download_threads[t].url)
            IN  /\ SetRegistry(out.r)
                /\ fs' = out.fs
                /\ pending_playlist_name' = NoAttr
                /\ UNCHANGED fault
    /\ UNCHANGED <<search_box, _is_closing, parse_in, parse_out, startup,
                   _opener, workers, playing>>

\* the state after start-up with no playlist registered and none on disk
InitAdd ==
    /\ InitPlayer([path \in AddPaths |-> NoFile], <<>>)
    /\ RegOver(JMissing, PyDict(<<>>), PyNone)

NextAdd ==
    \/ \E url \in AddUrls : AddFromUrl(url)
    \/ \E t \in 1 .. MaxAdds, outcome \in DownloadOutcomes :
          /\ t \in 1 .. Len(download_threads)
          /\ DownloadRun(t, outcome, BodyOf(download_threads[t].url))
    \/ \E t \in 1 .. MaxAdds : PlaylistDownloaded(t)

SpecAdd == InitAdd /\ [][NextAdd]_vars

\* C27: with two add-from-URL downloads in flight at once, every successful
\* completion makes a registry entry of its own, with the name entered for
\* it and a file holding what was downloaded from its url, and no
\* completion raises
Added(t) ==
    /\ download_threads[t].phase = "done"
    /\ download_threads[t].success

C27_EachAddGetsItsEntry ==
    /\ fault = ""
    /\ \A t \in DOMAIN download_threads :
          Added(t) =>
             \E i \in 1 .. Len(playlists_data.v) :
                LET key   == playlists_data.v[i].k
                    entry == playlists_data.v[i].val
                    url   == download_threads[t].url
                IN  /\ PyDictGet(entry, "url", PyNone) = PyStr(url)
                    /\ PyDictGet(entry, "name", PyNone) = PyStr(NameOf(url))
                    /\ fs[key] = BodyOf(url)

-----------------------------------------------------------------------------
(* Playing a channel                                                       *)

\* next((c for c in self.channels if c.name == channel_name), None), as the
\* index of the channel found, 0 for None
play_channel_find(chs, channel_name) ==
    LET hits == {i \in 1 .. Len(chs) : chs[i].name = channel_name}
    IN  IF hits = {} THEN 0
        ELSE CHOOSE i \in hits : \A j \in hits : i <= j

\* a double click on row k, or the play button with row k current:
\* play_channel(item.text()); playing keeps the row and the URL handed to
\* self.player.play
PlayItem(k) ==
    /\ ~_is_closing
    /\ k \in DOMAIN channel_list
    /\ LET channel == play_channel_find(channels, channel_list[k].text)
       IN  /\ channel # 0
           /\ playing' = [item |-> k, url |-> channels[channel].url]
    /\ UNCHANGED <<player, reg, _opener, workers, pending_playlist_name, fault>>

InitPlay == \E text \in DupTexts : InitOver("p1" :> text @@ "p2" :> NoFile, <<>>)

NextPlay ==
    \/ \E p \in Paths : LoadPlaylist(p) /\ InLoad
    \/ \E i \in 1 .. 3 : CategoryActivated(i) /\ InLoad
    \/ \E text \in LoadSearchTexts : SearchEdited(text) /\ InLoad
    \/ \E k \in 1 .. 3 : PlayItem(k)

SpecPlay == InitPlay /\ [][NextPlay]_vars

\* C28: playing a row of the channel list hands the player the URL of the
\* channel that row was built from, also when several channels of the
\* playlist have the same name
C28_PlaysTheRowsChannel ==
    [][playing' # playing =>
          /\ Len(ShownChannels) = Len(channel_list)
          /\ playing'.url = ShownChannels[playing'.item].url]_vars

\* C29: once closeEvent has set _is_closing, no step starts an icon fetch
\* thread or writes channel_icons, whichever timer callbacks and fetch
\* completions are delivered afterwards
C29_NothingAfterClose ==
    [][_is_closing =>
          /\ Len(_active_threads') = Len(_active_threads)
          /\ \A t \in DOMAIN _active_threads :
                _active_threads'[t].phase = "running"
                => _active_threads[t].phase = "running"
          /\ channel_icons' = channel_icons
          /\ pending_icon_downloads' = pending_icon_downloads]_vars

\* the window is closed, the timer has fired and a fetch that was stopped
\* after it had emitted its image has been delivered
C29_Witness ==
    /\ _is_closing
    /\ timers = 0
    /\ channel_icons = EmptyDict
    /\ \E t \in DOMAIN _active_threads :
          /\ _active_threads[t].phase = "done"
          /\ _active_threads[t].result = "ok"
          /\ ~_active_threads[t].running

\* C30: deleting or refreshing the playlist selected in the combo box acts
\* on the registry entry the selected item was built from, the file path
\* update_playlist_list appended with it, and on no other entry, also when
\* two entries have the same display name
SelectedFile == playlist_files[playlist_combo.idx]

DeleteStep == Len(playlists_data'.v) < Len(playlists_data.v)

RefreshStep ==
    /\ startup' = startup
    /\ Len(download_threads') = Len(download_threads) + 1

C30_ActsOnSelectedEntry ==
    [][/\ DeleteStep =>
             /\ playlist_combo.idx \in DOMAIN playlist_files
             /\ playlists_data' = PyDictDel(playlists_data, SelectedFile)
       /\ RefreshStep =>
             /\ playlist_combo.idx \in DOMAIN playlist_files
             /\ download_threads'[Len(download_threads')].file_path = SelectedFile]_vars

====
